---- MODULE Spec2Model ----
(***************************************************************************)
(* Model of the natural-language statistics combiner                       *)
(* (tensorflow_data_validation/statistics/generators/                      *)
(*  natural_language_stats_generator.py).                                  *)
(*                                                                         *)
(* Python objects are modelled by value plus identity where identity       *)
(* matters: every _TokenStats object lives at an address of the heap       *)
(* `trackers` (the pair of the accumulator that allocated it and its       *)
(* token), and an accumulator's token_statistics dict maps a token to the  *)
(* address of its _TokenStats object, so that the dict assignment          *)
(* `self.token_statistics[t] = other.token_statistics[t]` shares one       *)
(* object between two accumulators, as it does in Python.                  *)
(*                                                                         *)
(* Tokens are tagged records (an int token and a str token never compare   *)
(* equal, as in Python); a str token carries its characters, so len() is   *)
(* Len.  Python's None is the empty sequence and a present value v is the  *)
(* one-element sequence <<v>>.  A float that is a quotient of two small    *)
(* integers is the fraction in lowest terms (IEEE division is correctly    *)
(* rounded, so equal quotients are equal floats and the order is kept).    *)
(***************************************************************************)
EXTENDS Integers, Sequences, FiniteSets, TLC

VARIABLES
  cfg,        \* the generator's per-feature configuration after setup()
  trackers,   \* the _TokenStats objects allocated so far, by address
  accs,       \* the _PartialNLStats objects ever created, by id
  folded,     \* history: per accumulator, the non-null rows it stands for
  consumed,   \* history: accumulators already passed to merge_accumulators
  linear,     \* history: no accumulator was used again after being merged
  work,       \* history: rows read, batches returned on, compact calls
  output      \* what the last call returned, when it was extract_output

vars == <<cfg, trackers, accs, folded, consumed, linear, work, output>>

----------------------------------------------------------------------------
(* Bounds of the model *)

MaxAcc == 3
MaxWork == 2
MaxBatch == 2
MaxMerge == 2

(* Program constants *)

_NUM_REPORTED_SEQUENCES_PER_TYPE == 5
_NUM_MISRAGRIES_SKETCH_BUCKETS == 16384

----------------------------------------------------------------------------
(* Values *)

None == <<>>
Some(v) == <<v>>

IntTok(n) == [isint |-> TRUE, n |-> n, s |-> <<>>]
StrTok(s) == [isint |-> FALSE, n |-> 0, s |-> s]

MinOf(a, b) == IF a <= b THEN a ELSE b
MaxOf(a, b) == IF a >= b THEN a ELSE b

RECURSIVE GCD(_, _)
GCD(a, b) == IF b = 0 THEN a ELSE GCD(b, a % b)

\* float(n) / d for d > 0
Quot(n, d) == LET g == GCD(n, d) IN <<n \div g, d \div g>>
QuotLE(x, y) == x[1] * y[2] <= y[1] * x[2]
QuotLT(x, y) == x[1] * y[2] < y[1] * x[2]

RECURSIVE SumSeq(_)
SumSeq(s) == IF s = <<>> THEN 0 ELSE s[1] + SumSeq(Tail(s))

\* collections.Counter: the keys present and their positive counts
EmptyCounter == <<>>
CounterGet(c, k) == IF k \in DOMAIN c THEN c[k] ELSE 0
CounterAdd(c, d) ==
  [k \in DOMAIN c \cup DOMAIN d |-> CounterGet(c, k) + CounterGet(d, k)]
CounterInc(c, k) ==
  [j \in DOMAIN c \cup {k} |-> CounterGet(c, j) + (IF j = k THEN 1 ELSE 0)]
RECURSIVE CounterOfSeq(_)
CounterOfSeq(s) ==
  IF s = <<>> THEN EmptyCounter ELSE CounterInc(CounterOfSeq(Tail(s)), s[1])

----------------------------------------------------------------------------
(* _sort_and_truncate_reported_sequence: list.sort is stable *)

\* a faulty variant: an entry is placed before the entries of equal metric
InsertByMetric_BeforeEqual(sorted, e) ==
  LET n == Cardinality({i \in 1..Len(sorted) : QuotLT(sorted[i][2], e[2])})
  IN SubSeq(sorted, 1, n) \o <<e>> \o SubSeq(sorted, n + 1, Len(sorted))

InsertByMetric(sorted, e) ==
  LET n == Cardinality({i \in 1..Len(sorted) : QuotLE(sorted[i][2], e[2])})
  IN SubSeq(sorted, 1, n) \o <<e>> \o SubSeq(sorted, n + 1, Len(sorted))

RECURSIVE SortByMetric(_)
SortByMetric(sequence) ==
  IF sequence = <<>> THEN <<>>
  ELSE InsertByMetric(SortByMetric(SubSeq(sequence, 1, Len(sequence) - 1)),
                      sequence[Len(sequence)])

\* a faulty variant: truncates without sorting
_sort_and_truncate_reported_sequence_Unsorted(sequence) ==
  SubSeq(sequence, 1, MinOf(Len(sequence), _NUM_REPORTED_SEQUENCES_PER_TYPE))

\* a faulty variant: sorts without truncating
_sort_and_truncate_reported_sequence_Untruncated(sequence) ==
  SortByMetric(sequence)

_sort_and_truncate_reported_sequence(sequence) ==
  LET sorted == SortByMetric(sequence)
  IN SubSeq(sorted, 1, MinOf(Len(sorted), _NUM_REPORTED_SEQUENCES_PER_TYPE))

----------------------------------------------------------------------------
(* _TokenStats *)

NewTokenStats ==
  [frequency |-> 0,
   num_sequences |-> 0,
   per_sequence_min_frequency |-> None,
   per_sequence_max_frequency |-> None,
   positions |-> EmptyCounter]

\* faulty variants: max for both bounds, and the mean of the bounds
MergeBound_Max(self_freq, other_freq, take_min) ==
  IF self_freq # None /\ other_freq # None
    THEN Some(MaxOf(self_freq[1], other_freq[1]))
    ELSE IF self_freq = None THEN other_freq ELSE self_freq
MergeBound_Mean(self_freq, other_freq, take_min) ==
  IF self_freq # None /\ other_freq # None
    THEN Some((self_freq[1] + other_freq[1]) \div 2)
    ELSE IF self_freq = None THEN other_freq ELSE self_freq

\* the min/max branch of _TokenStats.__iadd__
MergeBound(self_freq, other_freq, take_min) ==
  IF self_freq # None /\ other_freq # None
    THEN Some(IF take_min THEN MinOf(self_freq[1], other_freq[1])
                          ELSE MaxOf(self_freq[1], other_freq[1]))
    ELSE IF self_freq = None THEN other_freq ELSE self_freq

\* a faulty variant: the frequency is overwritten instead of added
TokenStatsIAdd_Overwrite(self, other) ==
  [frequency |-> other.frequency,
   num_sequences |-> self.num_sequences + other.num_sequences,
   per_sequence_min_frequency |->
     MergeBound(self.per_sequence_min_frequency,
                other.per_sequence_min_frequency, TRUE),
   per_sequence_max_frequency |->
     MergeBound(self.per_sequence_max_frequency,
                other.per_sequence_max_frequency, FALSE),
   positions |-> CounterAdd(self.positions, other.positions)]

\* a faulty variant: the positions of the other object are not added
TokenStatsIAdd_KeepsPositions(self, other) ==
  [frequency |-> self.frequency + other.frequency,
   num_sequences |-> self.num_sequences + other.num_sequences,
   per_sequence_min_frequency |->
     MergeBound(self.per_sequence_min_frequency,
                other.per_sequence_min_frequency, TRUE),
   per_sequence_max_frequency |->
     MergeBound(self.per_sequence_max_frequency,
                other.per_sequence_max_frequency, FALSE),
   positions |-> self.positions]

TokenStatsIAdd(self, other) ==
  [frequency |-> self.frequency + other.frequency,
   num_sequences |-> self.num_sequences + other.num_sequences,
   per_sequence_min_frequency |->
     MergeBound(self.per_sequence_min_frequency,
                other.per_sequence_min_frequency, TRUE),
   per_sequence_max_frequency |->
     MergeBound(self.per_sequence_max_frequency,
                other.per_sequence_max_frequency, FALSE),
   positions |-> CounterAdd(self.positions, other.positions)]

----------------------------------------------------------------------------
(* The two sketches of tfx_bsl, by the values they were given.  The        *)
(* quantile sketch also records whether its buffers are compacted.         *)

NewQuantilesSketch == [values |-> EmptyCounter, compacted |-> TRUE]
QuantilesAddValues(q, lens) ==
  [values |-> CounterAdd(q.values, CounterOfSeq(lens)), compacted |-> FALSE]
QuantilesMerge(q, other) ==
  [values |-> CounterAdd(q.values, other.values), compacted |-> FALSE]
QuantilesCompact(q) == [q EXCEPT !.compacted = TRUE]

NewMisraGriesSketch == EmptyCounter
MisraGriesAddValues(m, toks) == CounterAdd(m, CounterOfSeq(toks))
MisraGriesMerge(m, other) == CounterAdd(m, other)

----------------------------------------------------------------------------
(* _PartialNLStats *)

NewPartialNLStats ==
  [invalidate |-> FALSE,
   num_in_vocab_tokens |-> 0,
   total_num_tokens |-> 0,
   sum_in_vocab_token_lengths |-> 0,
   num_examples |-> 0,
   vocab_token_length_quantiles |-> NewQuantilesSketch,
   token_occurrence_counts |-> NewMisraGriesSketch,
   token_statistics |-> <<>>,
   reported_sequences_coverage |-> <<>>,
   reported_sequences_avg_token_length |-> <<>>]

----------------------------------------------------------------------------
(* Row processing.  `st` is [trackers, acc, id]: the heap of _TokenStats   *)
(* objects, the accumulator being updated and its id.                      *)

\* int(i * num_histogram_buckets) for i = float(index) / len(row), index
\* counted from 0.  For rows shorter than 10 tokens the truncated float
\* product is the integer quotient (the first row length where a double
\* rounds below an exact bucket border is 10, at index 7 with 90 buckets).
PositionBucket_FromOne(index, length, num_histogram_buckets) ==
  ((index + 1) * num_histogram_buckets) \div length

PositionBucket(index, length, num_histogram_buckets) ==
  (index * num_histogram_buckets) \div length

\* accumulator.token_statistics[t] of a defaultdict: the address of t's
\* object, allocated on first access
TrackerAddr(st, t) ==
  IF t \in DOMAIN st.acc.token_statistics
    THEN st.acc.token_statistics[t]
    ELSE <<st.id, t>>

TrackerOf(st, t) ==
  IF t \in DOMAIN st.acc.token_statistics
    THEN st.trackers[st.acc.token_statistics[t]]
    ELSE NewTokenStats

\* a faulty variant: counts every sequence, with the token or without
SeqIncrement_Always(num_occur) == 1

\* a faulty variant: counts occurrences, not sequences
SeqIncrement_Occurrences(num_occur) == num_occur

\* a faulty variant: a sequence with the token counts twice
SeqIncrement_Twice(num_occur) == IF num_occur # 0 THEN 2 ELSE 0

\* (1 if num_occur else 0)
SeqIncrement(num_occur) == IF num_occur # 0 THEN 1 ELSE 0

\* a faulty variant: without the else branch an absent bound stays absent
UpdateBound_NoElse(accum_freq, num_occur, take_min) ==
  IF accum_freq # None
    THEN Some(IF take_min THEN MinOf(accum_freq[1], num_occur)
                          ELSE MaxOf(accum_freq[1], num_occur))
    ELSE None

\* a faulty variant: a bound that is set is never updated
UpdateBound_KeepsFirst(accum_freq, num_occur, take_min) ==
  IF accum_freq # None THEN accum_freq ELSE Some(num_occur)

\* the per-row min/max branch of _update_accumulator_with_token_statistics
UpdateBound(accum_freq, num_occur, take_min) ==
  IF accum_freq # None
    THEN Some(IF take_min THEN MinOf(accum_freq[1], num_occur)
                          ELSE MaxOf(accum_freq[1], num_occur))
    ELSE Some(num_occur)

\* the body of the loop `for t in tokens` for one token t
UpdateTokenStatisticsFor(st, row, t, num_histogram_buckets) ==
  LET indices == {i \in 1..Len(row) : row[i] = t}
      num_occur == Cardinality(indices)
      addr == TrackerAddr(st, t)
      old == TrackerOf(st, t)
      hits == [k \in {PositionBucket(i - 1, Len(row), num_histogram_buckets) :
                        i \in indices} |->
                 Cardinality({i \in indices :
                   PositionBucket(i - 1, Len(row), num_histogram_buckets) = k})]
      new == [frequency |-> old.frequency + num_occur,
              num_sequences |->
                old.num_sequences + SeqIncrement(num_occur),
              per_sequence_min_frequency |->
                UpdateBound(old.per_sequence_min_frequency, num_occur, TRUE),
              per_sequence_max_frequency |->
                UpdateBound(old.per_sequence_max_frequency, num_occur, FALSE),
              positions |-> CounterAdd(old.positions, hits)]
  IN [trackers |->
        [x \in DOMAIN st.trackers \cup {addr} |->
           IF x = addr THEN new ELSE st.trackers[x]],
      acc |-> [st.acc EXCEPT !.token_statistics =
                 [u \in DOMAIN st.acc.token_statistics \cup {t} |->
                    IF u = t THEN addr ELSE st.acc.token_statistics[u]]],
      id |-> st.id]

RECURSIVE _update_accumulator_with_token_statistics(_, _, _, _)
_update_accumulator_with_token_statistics(st, row, tokens, num_histogram_buckets) ==
  IF tokens = {} THEN st
  ELSE LET t == CHOOSE x \in tokens : TRUE
       IN _update_accumulator_with_token_statistics(
            UpdateTokenStatisticsFor(st, row, t, num_histogram_buckets),
            row, tokens \ {t}, num_histogram_buckets)

\* [len(t) for t in token_list]
TokenLens(token_list) == [i \in 1..Len(token_list) |-> Len(token_list[i].s)]

\* a faulty variant: every token of the list is counted twice
_update_accumulator_with_in_vocab_string_tokens_Twice(acc, token_list) ==
  [acc EXCEPT
     !.num_in_vocab_tokens = @ + 2 * Len(token_list),
     !.token_occurrence_counts = MisraGriesAddValues(@, token_list),
     !.sum_in_vocab_token_lengths = @ + SumSeq(TokenLens(token_list)),
     !.vocab_token_length_quantiles =
        QuantilesAddValues(@, TokenLens(token_list))]

_update_accumulator_with_in_vocab_string_tokens(acc, token_list) ==
  [acc EXCEPT
     !.num_in_vocab_tokens = @ + Len(token_list),
     !.token_occurrence_counts = MisraGriesAddValues(@, token_list),
     !.sum_in_vocab_token_lengths = @ + SumSeq(TokenLens(token_list)),
     !.vocab_token_length_quantiles =
        QuantilesAddValues(@, TokenLens(token_list))]

\* a faulty variant: OOV tokens are counted
ReportedTokenLens_CountsOov(resolved_entry, oov_string_tokens) ==
  TokenLens(SelectSeq(resolved_entry, LAMBDA i : ~i.isint))

\* the metrics of _update_accumulator_reported_sequences
ReportedTokenLens(resolved_entry, oov_string_tokens) ==
  TokenLens(SelectSeq(resolved_entry,
    LAMBDA i : ~i.isint /\ i \notin oov_string_tokens))

SequenceCoverage(resolved_entry, oov_string_tokens) ==
  Quot(Len(ReportedTokenLens(resolved_entry, oov_string_tokens)),
       Len(resolved_entry))

SequenceAvgTokenLen(resolved_entry, oov_string_tokens) ==
  LET token_lens == ReportedTokenLens(resolved_entry, oov_string_tokens)
  IN IF token_lens # <<>>
       THEN Quot(SumSeq(token_lens), Len(token_lens))
       ELSE <<0, 1>>

_update_accumulator_reported_sequences(acc, resolved_entry, oov_string_tokens) ==
  [acc EXCEPT
     !.reported_sequences_coverage =
        _sort_and_truncate_reported_sequence(Append(@,
          <<resolved_entry,
            SequenceCoverage(resolved_entry, oov_string_tokens)>>)),
     !.reported_sequences_avg_token_length =
        _sort_and_truncate_reported_sequence(Append(@,
          <<resolved_entry,
            SequenceAvgTokenLen(resolved_entry, oov_string_tokens)>>))]

\* dict.get(r, r)
DictGet(d, r) == IF r \in DOMAIN d THEN d[r] ELSE r

\* a faulty variant: the row is not resolved
ResolveRow_Unresolved(d, row) == row

ResolveRow(d, row) == [i \in 1..Len(row) |-> DictGet(d, row[i])]

\* a faulty variant: the resolved string is not checked for exclusion
RECURSIVE IntFilterLoop_NoStringExclusion(_, _, _)
IntFilterLoop_NoStringExclusion(row, c, r) ==
  IF row = <<>> THEN r
  ELSE LET entry == row[1]
           rest == Tail(row)
       IN IF entry \in c.excluded_int_tokens
            THEN IntFilterLoop_NoStringExclusion(rest, c, r)
          ELSE IF c.has_vocab /\ entry \in DOMAIN c.rvocab
                  /\ c.rvocab[entry] \notin c.oov_string_tokens
            THEN IntFilterLoop_NoStringExclusion(rest, c,
                   [total |-> r.total + 1,
                    filtered |-> Append(r.filtered, c.rvocab[entry])])
          ELSE IntFilterLoop_NoStringExclusion(rest, c,
                 [r EXCEPT !.total = @ + 1])

\* the loop of _compute_int_statistics over the row's entries:
\* [total: the increase of total_num_tokens, filtered: filtered_entry_str_list]
RECURSIVE IntFilterLoop(_, _, _)
IntFilterLoop(row, c, r) ==
  IF row = <<>> THEN r
  ELSE LET entry == row[1]
           rest == Tail(row)
       IN IF entry \in c.excluded_int_tokens
            THEN IntFilterLoop(rest, c, r)
          ELSE IF c.has_vocab /\ entry \in DOMAIN c.rvocab
            THEN LET entry_str == c.rvocab[entry]
                 IN IF entry_str \in c.excluded_string_tokens
                      THEN IntFilterLoop(rest, c, r)
                    ELSE IF entry_str \notin c.oov_string_tokens
                      THEN IntFilterLoop(rest, c,
                             [total |-> r.total + 1,
                              filtered |-> Append(r.filtered, entry_str)])
                    ELSE IntFilterLoop(rest, c, [r EXCEPT !.total = @ + 1])
          ELSE IntFilterLoop(rest, c, [r EXCEPT !.total = @ + 1])

\* a faulty variant: an OOV entry is not counted in total_num_tokens
RECURSIVE StrFilterLoop_SkipsOov(_, _, _)
StrFilterLoop_SkipsOov(row, c, r) ==
  IF row = <<>> THEN r
  ELSE LET entry == row[1]
           rest == Tail(row)
       IN IF entry \in c.excluded_string_tokens
            THEN StrFilterLoop_SkipsOov(rest, c, r)
          ELSE IF c.has_vocab /\ entry \in DOMAIN c.vocab
                  /\ c.vocab[entry] \in c.excluded_int_tokens
            THEN StrFilterLoop_SkipsOov(rest, c, r)
          ELSE IF entry \notin c.oov_string_tokens
            THEN StrFilterLoop_SkipsOov(rest, c,
                   [total |-> r.total + 1,
                    filtered |-> Append(r.filtered, entry)])
          ELSE StrFilterLoop_SkipsOov(rest, c, r)

\* the loop of _compute_str_statistics over the row's entries
RECURSIVE StrFilterLoop(_, _, _)
StrFilterLoop(row, c, r) ==
  IF row = <<>> THEN r
  ELSE LET entry == row[1]
           rest == Tail(row)
       IN IF entry \in c.excluded_string_tokens
            THEN StrFilterLoop(rest, c, r)
          ELSE IF c.has_vocab /\ entry \in DOMAIN c.vocab
                  /\ c.vocab[entry] \in c.excluded_int_tokens
            THEN StrFilterLoop(rest, c, r)
          ELSE IF entry \notin c.oov_string_tokens
            THEN StrFilterLoop(rest, c,
                   [total |-> r.total + 1,
                    filtered |-> Append(r.filtered, entry)])
          ELSE StrFilterLoop(rest, c, [r EXCEPT !.total = @ + 1])

\* the tail of both row functions: the counters and the sketches
AddFiltered(st, r) ==
  LET counted == [st.acc EXCEPT !.total_num_tokens = @ + r.total]
  IN [st EXCEPT !.acc =
        IF r.filtered # <<>>
          THEN _update_accumulator_with_in_vocab_string_tokens(counted,
                                                               r.filtered)
          ELSE counted]

_compute_int_statistics(row, st, c) ==
  LET st0 == [st EXCEPT !.acc.num_examples = @ + 1]
      resolved_row ==
        IF c.has_vocab /\ DOMAIN c.rvocab # {}
          THEN ResolveRow(c.rvocab, row) ELSE row
      st1 == _update_accumulator_with_token_statistics(
               st0, row, c.int_tokens, c.num_histogram_buckets)
      st2 == _update_accumulator_with_token_statistics(
               st1, resolved_row, c.string_tokens, c.num_histogram_buckets)
      st3 == [st2 EXCEPT !.acc = _update_accumulator_reported_sequences(
               @, resolved_row, c.oov_string_tokens)]
  IN AddFiltered(IF row # <<>> THEN st3 ELSE st0,
                 IntFilterLoop(row, c, [total |-> 0, filtered |-> <<>>]))

\* a faulty variant: the token statistics are updated for an empty row too
_compute_str_statistics_NoGuard(row, st, c) ==
  LET st0 == [st EXCEPT !.acc.num_examples = @ + 1]
      st1 == _update_accumulator_with_token_statistics(
               st0, row, c.string_tokens, c.num_histogram_buckets)
      st2 == [st1 EXCEPT !.acc = _update_accumulator_reported_sequences(
               @, row, c.oov_string_tokens)]
      st3 == IF c.has_vocab /\ DOMAIN c.vocab # {}
               THEN _update_accumulator_with_token_statistics(
                      st2, ResolveRow(c.vocab, row), c.int_tokens,
                      c.num_histogram_buckets)
               ELSE st2
  IN AddFiltered(IF row # <<>> THEN st3 ELSE st1,
                 StrFilterLoop(row, c, [total |-> 0, filtered |-> <<>>]))

_compute_str_statistics(row, st, c) ==
  LET st0 == [st EXCEPT !.acc.num_examples = @ + 1]
      st1 == _update_accumulator_with_token_statistics(
               st0, row, c.string_tokens, c.num_histogram_buckets)
      st2 == [st1 EXCEPT !.acc = _update_accumulator_reported_sequences(
               @, row, c.oov_string_tokens)]
      st3 == IF c.has_vocab /\ DOMAIN c.vocab # {}
               THEN _update_accumulator_with_token_statistics(
                      st2, ResolveRow(c.vocab, row), c.int_tokens,
                      c.num_histogram_buckets)
               ELSE st2
  IN AddFiltered(IF row # <<>> THEN st3 ELSE st0,
                 StrFilterLoop(row, c, [total |-> 0, filtered |-> <<>>]))

----------------------------------------------------------------------------
(* NLStatsGenerator.setup for one leaf feature of the schema *)

A == <<"a">>
BB == <<"b", "b">>
U == <<"u">>

\* vocab_util.load_vocab of the vocabulary file: vocab and rvocab
LoadedVocab == (StrTok(A) :> IntTok(1)) @@ (StrTok(BB) :> IntTok(2))
LoadedRVocab == (IntTok(1) :> StrTok(A)) @@ (IntTok(2) :> StrTok(BB))

IntConstraint(n) ==
  [value |-> "int_value", int_value |-> n, string_value |-> <<>>]
StrConstraint(s) ==
  [value |-> "string_value", int_value |-> 0, string_value |-> s]
\* a constraint whose oneof `value` is unset: WhichOneof returns None and
\* the fields read as their defaults
UnsetConstraint ==
  [value |-> "None", int_value |-> 0, string_value |-> <<>>]

Setup(f) ==
  [valid |-> f.nl_domain /\ (f.vocabulary # ""
                             \/ f.excluded_string_tokens # {}
                             \/ f.excluded_int_tokens # {}
                             \/ f.oov_string_tokens # {}),
   has_vocab |-> f.nl_domain /\ f.vocabulary # "",
   vocab |-> IF f.nl_domain /\ f.vocabulary # "" THEN LoadedVocab ELSE <<>>,
   rvocab |-> IF f.nl_domain /\ f.vocabulary # "" THEN LoadedRVocab ELSE <<>>,
   excluded_string_tokens |->
     IF f.nl_domain THEN {StrTok(x) : x \in f.excluded_string_tokens} ELSE {},
   excluded_int_tokens |->
     IF f.nl_domain THEN {IntTok(x) : x \in f.excluded_int_tokens} ELSE {},
   oov_string_tokens |->
     IF f.nl_domain THEN {StrTok(x) : x \in f.oov_string_tokens} ELSE {},
   int_tokens |->
     IF f.nl_domain
       THEN {IntTok(t.int_value) :
               t \in {u \in f.token_constraints : u.value = "int_value"}}
       ELSE {},
   string_tokens |->
     IF f.nl_domain
       THEN {StrTok(t.string_value) :
               t \in {u \in f.token_constraints : u.value # "int_value"}}
       ELSE {},
   num_histogram_buckets |-> f.num_histogram_buckets,
   num_quantiles_histogram_buckets |-> f.num_quantiles_histogram_buckets,
   num_rank_histogram_buckets |-> f.num_rank_histogram_buckets]

----------------------------------------------------------------------------
(* NLStatsGenerator.__init__ *)

\* the generator before it is constructed
NotConstructed == [constructed |-> FALSE]

\* the AssertionError of __init__; its message names the limit
AssertionRaised ==
  [raised |-> "num_rank_histogram_buckets cannot be greater than",
   limit |-> _NUM_MISRAGRIES_SKETCH_BUCKETS]

\* a faulty variant: the limit itself is rejected
RankBucketsAssert_Strict(num_rank_histogram_buckets) ==
  num_rank_histogram_buckets < _NUM_MISRAGRIES_SKETCH_BUCKETS

\* the condition of the assert statement
RankBucketsAssert(num_rank_histogram_buckets) ==
  num_rank_histogram_buckets <= _NUM_MISRAGRIES_SKETCH_BUCKETS

\* the generator after __init__ and setup, or the error __init__ raised
NLStatsGenerator(f) ==
  IF RankBucketsAssert(f.num_rank_histogram_buckets)
    THEN Setup(f)
    ELSE AssertionRaised

----------------------------------------------------------------------------
(* NLStatsGenerator.add_input *)

NoneRow == [null |-> TRUE, toks |-> <<>>]
Row(toks) == [null |-> FALSE, toks |-> toks]

\* a faulty variant: a null row counts as an example
RECURSIVE FoldRows_CountsNull(_, _, _, _)
FoldRows_CountsNull(rows, st, feature_type, c) ==
  IF rows = <<>> THEN st
  ELSE FoldRows_CountsNull(Tail(rows),
         IF rows[1].null THEN [st EXCEPT !.acc.num_examples = @ + 1]
         ELSE IF feature_type = "INT"
           THEN _compute_int_statistics(rows[1].toks, st, c)
           ELSE _compute_str_statistics(rows[1].toks, st, c),
         feature_type, c)

RECURSIVE FoldRows(_, _, _, _)
FoldRows(rows, st, feature_type, c) ==
  IF rows = <<>> THEN st
  ELSE FoldRows(Tail(rows),
         IF rows[1].null THEN st
         ELSE IF feature_type = "INT"
           THEN _compute_int_statistics(rows[1].toks, st, c)
           ELSE _compute_str_statistics(rows[1].toks, st, c),
         feature_type, c)

\* a faulty variant: a rejected batch also clears the accumulator
add_input_ClearsRejected(st, batch, c) ==
  IF ~c.valid
    THEN [st EXCEPT !.acc = [NewPartialNLStats EXCEPT !.invalidate = TRUE]]
  ELSE IF batch.type = "NULL"
    THEN st
  ELSE IF batch.type \notin {"INT", "STRING"}
    THEN [st EXCEPT !.acc = [NewPartialNLStats EXCEPT !.invalidate = TRUE]]
  ELSE FoldRows(batch.rows, st, batch.type, c)

add_input(st, batch, c) ==
  IF ~c.valid
    THEN [st EXCEPT !.acc.invalidate = TRUE]
  ELSE IF batch.type = "NULL"
    THEN st
  ELSE IF batch.type \notin {"INT", "STRING"}
    THEN [st EXCEPT !.acc.invalidate = TRUE]
  ELSE FoldRows(batch.rows, st, batch.type, c)

----------------------------------------------------------------------------
(* _PartialNLStats.__iadd__ and NLStatsGenerator.merge_accumulators *)

\* the loop `for t in other.token_statistics`
RECURSIVE MergeTokenStatistics(_, _, _)
MergeTokenStatistics(st, other, todo) ==
  IF todo = {} THEN st
  ELSE LET t == CHOOSE x \in todo : TRUE
           next ==
             IF t \notin DOMAIN st.acc.token_statistics
               THEN [st EXCEPT !.acc.token_statistics =
                       [u \in DOMAIN st.acc.token_statistics \cup {t} |->
                          IF u = t THEN other.token_statistics[t]
                          ELSE st.acc.token_statistics[u]]]
               ELSE [st EXCEPT !.trackers[st.acc.token_statistics[t]] =
                       TokenStatsIAdd(@,
                         st.trackers[other.token_statistics[t]])]
       IN MergeTokenStatistics(next, other, todo \ {t})

\* faulty variants: `=` and `&=` in place of `|=`
MergeInvalidate_Assign(self_invalidate, other_invalidate) == other_invalidate
MergeInvalidate_And(self_invalidate, other_invalidate) ==
  self_invalidate /\ other_invalidate

\* self.invalidate |= other.invalidate
MergeInvalidate(self_invalidate, other_invalidate) ==
  self_invalidate \/ other_invalidate

PartialNLStatsIAdd(st, other) ==
  LET scalars ==
        [st.acc EXCEPT
           !.invalidate = MergeInvalidate(@, other.invalidate),
           !.num_in_vocab_tokens = @ + other.num_in_vocab_tokens,
           !.total_num_tokens = @ + other.total_num_tokens,
           !.sum_in_vocab_token_lengths = @ + other.sum_in_vocab_token_lengths,
           !.num_examples = @ + other.num_examples,
           !.vocab_token_length_quantiles =
              QuantilesMerge(@, other.vocab_token_length_quantiles),
           !.token_occurrence_counts =
              MisraGriesMerge(@, other.token_occurrence_counts),
           !.reported_sequences_coverage =
              _sort_and_truncate_reported_sequence(
                @ \o other.reported_sequences_coverage),
           !.reported_sequences_avg_token_length =
              _sort_and_truncate_reported_sequence(
                @ \o other.reported_sequences_avg_token_length)]
  IN MergeTokenStatistics([st EXCEPT !.acc = scalars], other,
                          DOMAIN other.token_statistics)

\* the loop `for accumulator in accumulators: result += accumulator`
RECURSIVE MergeLoop(_, _, _)
MergeLoop(st, all, ids) ==
  IF ids = <<>> THEN st
  ELSE MergeLoop(PartialNLStatsIAdd(st, all[ids[1]]), all, Tail(ids))

\* a faulty variant: the first accumulator of the list is not added
merge_accumulators_SkipsFirst(heap, all, ids, id) ==
  MergeLoop([trackers |-> heap, acc |-> NewPartialNLStats, id |-> id],
            all, IF ids = <<>> THEN ids ELSE Tail(ids))

merge_accumulators(heap, all, ids, id) ==
  MergeLoop([trackers |-> heap, acc |-> NewPartialNLStats, id |-> id],
            all, ids)

----------------------------------------------------------------------------
(* NLStatsGenerator.compact *)

\* a faulty variant: the frequency sketch is compacted away as well
compact_BothSketches(acc) ==
  [acc EXCEPT !.vocab_token_length_quantiles = QuantilesCompact(@),
              !.token_occurrence_counts = NewMisraGriesSketch]

compact(acc) ==
  [acc EXCEPT !.vocab_token_length_quantiles = QuantilesCompact(@)]

----------------------------------------------------------------------------
(* NLStatsGenerator.extract_output *)

RECURSIVE SortedKeys(_)
SortedKeys(S) ==
  IF S = {} THEN <<>>
  ELSE LET k == CHOOSE x \in S : \A y \in S : x <= y
       IN <<k>> \o SortedKeys(S \ {k})

_populate_token_position_histogram(stats, num_histogram_buckets) ==
  LET keys == SortedKeys(DOMAIN stats.positions)
  IN [i \in 1..Len(keys) |->
        [low_value |-> Quot(keys[i], num_histogram_buckets),
         high_value |-> Quot(keys[i] + 1, num_histogram_buckets),
         sample_count |-> stats.positions[keys[i]]]]

\* the statements of _populate_token_statistics that raise: a division by
\* zero, or None assigned to a numeric proto field
PopulateTokenRaises(num_histogram_buckets, num_examples, stats) ==
  /\ stats.num_sequences # 0
  /\ \/ num_examples = 0
     \/ stats.per_sequence_min_frequency = None
     \/ stats.per_sequence_max_frequency = None
     \/ (stats.positions # EmptyCounter /\ num_histogram_buckets = 0)

\* a faulty variant: the frequency is set also for a token without
\* sequences
_populate_token_statistics_SetsFrequency(name, num_histogram_buckets, num_examples, stats) ==
  IF stats.num_sequences # 0
    THEN [token |-> name,
          frequency |-> Some(stats.frequency),
          fraction_of_sequences |->
            Some(Quot(stats.num_sequences, num_examples)),
          per_sequence_min_frequency |-> stats.per_sequence_min_frequency,
          per_sequence_max_frequency |-> stats.per_sequence_max_frequency,
          per_sequence_avg_frequency |->
            Some(Quot(stats.frequency, stats.num_sequences)),
          positions |->
            _populate_token_position_histogram(stats, num_histogram_buckets)]
    ELSE [token |-> name,
          frequency |-> Some(stats.frequency),
          fraction_of_sequences |-> None,
          per_sequence_min_frequency |-> None,
          per_sequence_max_frequency |-> None,
          per_sequence_avg_frequency |-> None,
          positions |-> <<>>]

\* the TokenStatistics proto of one token; an unset field is None
_populate_token_statistics(name, num_histogram_buckets, num_examples, stats) ==
  IF stats.num_sequences # 0
    THEN [token |-> name,
          frequency |-> Some(stats.frequency),
          fraction_of_sequences |->
            Some(Quot(stats.num_sequences, num_examples)),
          per_sequence_min_frequency |-> stats.per_sequence_min_frequency,
          per_sequence_max_frequency |-> stats.per_sequence_max_frequency,
          per_sequence_avg_frequency |->
            Some(Quot(stats.frequency, stats.num_sequences)),
          positions |->
            _populate_token_position_histogram(stats, num_histogram_buckets)]
    ELSE [token |-> name,
          frequency |-> None,
          fraction_of_sequences |-> None,
          per_sequence_min_frequency |-> None,
          per_sequence_max_frequency |-> None,
          per_sequence_avg_frequency |-> None,
          positions |-> <<>>]

\* quantiles_util.generate_quantiles_histogram over the sketch's quantiles
_populate_token_length_histogram(acc, num_quantiles_histogram_buckets) ==
  IF acc.vocab_token_length_quantiles.values # EmptyCounter
    THEN Some([values |-> acc.vocab_token_length_quantiles.values,
               total |-> acc.num_in_vocab_tokens,
               buckets |-> num_quantiles_histogram_buckets])
    ELSE None

\* entries[:num_rank_histogram_buckets] of the sketch's estimate, which
\* lists the tokens by descending count
RECURSIVE _populate_token_rank_histogram(_, _, _)
_populate_token_rank_histogram(counts, num_rank_histogram_buckets, rank) ==
  IF DOMAIN counts = {} \/ rank >= num_rank_histogram_buckets THEN <<>>
  ELSE LET e == CHOOSE x \in DOMAIN counts :
                  \A y \in DOMAIN counts : counts[x] >= counts[y]
       IN <<[low_rank |-> rank, high_rank |-> rank, label |-> e,
             sample_count |-> counts[e]]>>
          \o _populate_token_rank_histogram(
               [y \in DOMAIN counts \ {e} |-> counts[y]],
               num_rank_histogram_buckets, rank + 1)

\* a FeatureNameStatistics without custom_stats
EmptyResult ==
  [nl_feature_coverage |-> None,
   nl_avg_token_length |-> None,
   nl_token_length_histogram |-> None,
   nl_rank_tokens |-> None,
   nl_token |-> <<>>,
   nl_reported_sequences |-> None,
   nl_statistics |-> None]

ExtractRaises(heap, acc, c) ==
  /\ ~acc.invalidate
  /\ \E t \in DOMAIN acc.token_statistics :
       PopulateTokenRaises(c.num_histogram_buckets, acc.num_examples,
                           heap[acc.token_statistics[t]])

extract_output(heap, acc, c) ==
  IF acc.invalidate THEN EmptyResult
  ELSE
    LET feature_coverage ==
          IF acc.total_num_tokens # 0
            THEN Some(Quot(acc.num_in_vocab_tokens, acc.total_num_tokens))
            ELSE None
        avg_token_length ==
          IF acc.num_in_vocab_tokens # 0
            THEN Some(Quot(acc.sum_in_vocab_token_lengths,
                           acc.num_in_vocab_tokens))
            ELSE None
        token_length_histogram ==
          IF c.num_quantiles_histogram_buckets # 0
            THEN _populate_token_length_histogram(
                   acc, c.num_quantiles_histogram_buckets)
            ELSE None
        rank_histogram ==
          IF c.num_rank_histogram_buckets # 0
            THEN _populate_token_rank_histogram(
                   acc.token_occurrence_counts,
                   c.num_rank_histogram_buckets, 0)
            ELSE <<>>
        token_statistics ==
          [t \in DOMAIN acc.token_statistics |->
             _populate_token_statistics(t, c.num_histogram_buckets,
               acc.num_examples, heap[acc.token_statistics[t]])]
        sequences ==
          acc.reported_sequences_coverage
            \o acc.reported_sequences_avg_token_length
        reported_sequences == [i \in 1..Len(sequences) |-> sequences[i][1]]
    IN [nl_feature_coverage |-> feature_coverage,
        nl_avg_token_length |-> avg_token_length,
        nl_token_length_histogram |-> token_length_histogram,
        nl_rank_tokens |->
          IF rank_histogram # <<>> THEN Some(rank_histogram) ELSE None,
        nl_token |->
          [t \in {u \in DOMAIN acc.token_statistics :
                    heap[acc.token_statistics[u]].num_sequences # 0} |->
             token_statistics[t]],
        nl_reported_sequences |->
          IF reported_sequences # <<>> THEN Some(reported_sequences)
          ELSE None,
        nl_statistics |->
          Some([feature_coverage |-> feature_coverage,
                avg_token_length |-> avg_token_length,
                token_length_histogram |-> token_length_histogram,
                rank_histogram |-> rank_histogram,
                token_statistics |-> token_statistics,
                reported_sequences |-> reported_sequences])]

\* a faulty variant: the loop looks the configured tokens up in the
\* defaultdict instead of iterating over its items
IteratedTokens_LooksUp(acc, c) ==
  DOMAIN acc.token_statistics \cup c.int_tokens \cup c.string_tokens

\* the names that `for name, stats in accumulator.token_statistics.items()`
\* visits
IteratedTokens(acc, c) == DOMAIN acc.token_statistics

\* the heap and the accumulator after extract_output: the sample lists are
\* concatenated into a new list, the counters are read, and a token whose
\* entry is accessed has an entry afterwards
ExtractOutputEffect(st, c) ==
  IF st.acc.invalidate THEN st
  ELSE LET names == IteratedTokens(st.acc, c)
       IN [trackers |->
             [x \in DOMAIN st.trackers \cup {TrackerAddr(st, t) : t \in names} |->
                IF x \in DOMAIN st.trackers THEN st.trackers[x]
                ELSE NewTokenStats],
           acc |-> [st.acc EXCEPT !.token_statistics =
                      [u \in DOMAIN st.acc.token_statistics \cup names |->
                         TrackerAddr(st, u)]],
           id |-> st.id]

----------------------------------------------------------------------------
(* The inputs of the model *)

\* leaf features of the schema, as setup() reads them
F1 ==
  [nl_domain |-> TRUE, vocabulary |-> "vocab",
   excluded_string_tokens |-> {}, excluded_int_tokens |-> {},
   oov_string_tokens |-> {BB},
   token_constraints |-> {IntConstraint(1), StrConstraint(A)},
   num_histogram_buckets |-> 2,
   num_quantiles_histogram_buckets |-> 2,
   num_rank_histogram_buckets |-> 2]
F2 ==
  [nl_domain |-> TRUE, vocabulary |-> "",
   excluded_string_tokens |-> {}, excluded_int_tokens |-> {},
   oov_string_tokens |-> {},
   token_constraints |-> {StrConstraint(A)},
   num_histogram_buckets |-> 2,
   num_quantiles_histogram_buckets |-> 2,
   num_rank_histogram_buckets |-> 2]

Features == {F1, F2}

IntRows ==
  {<<>>,
   <<IntTok(1), IntTok(2), IntTok(1)>>,
   <<IntTok(2), IntTok(9)>>}
StrRows ==
  {<<>>,
   <<StrTok(BB)>>,
   <<StrTok(A), StrTok(BB), StrTok(A)>>,
   <<StrTok(A), StrTok(U)>>}

SeqsUpTo(S, n) == UNION {[1..k -> S] : k \in 1..n}

\* feature arrays: their arrow type as get_feature_type_from_arrow_type
\* classifies it, and their rows (not read for a FLOAT array)
BatchesOf(int_rows, str_rows, n) ==
  [type : {"INT"}, rows : SeqsUpTo({Row(r) : r \in int_rows} \cup {NoneRow}, n)]
  \cup
  [type : {"STRING"},
   rows : SeqsUpTo({Row(r) : r \in str_rows} \cup {NoneRow}, n)]
  \cup [type : {"NULL"}, rows : SeqsUpTo({NoneRow}, n)]
  \cup [type : {"FLOAT"}, rows : {<<>>}]

Batches == BatchesOf(IntRows, StrRows, MaxBatch)

\* the rows of a batch that add_input hands to a row function
RowsRead(batch, c) ==
  IF c.valid /\ batch.type \in {"INT", "STRING"}
    THEN LET nonnull == SelectSeq(batch.rows, LAMBDA r : ~r.null)
         IN [i \in 1..Len(nonnull) |->
               [type |-> batch.type, toks |-> nonnull[i].toks]]
    ELSE <<>>

\* what a call of add_input counts against MaxWork: the rows of the array,
\* null or not, that its loop reads, or one for a batch that it returns on
\* early (a rejected batch, or a null array)
WorkOf(batch, c) ==
  IF ~c.valid \/ batch.type \notin {"INT", "STRING"}
    THEN 1 ELSE Len(batch.rows)

NoOutput == [called |-> FALSE, raised |-> FALSE, result |-> EmptyResult]

Range(s) == {s[i] : i \in DOMAIN s}

----------------------------------------------------------------------------
(* The state machine *)

Init ==
  /\ cfg \in {Setup(f) : f \in Features}
  /\ trackers = <<>>
  /\ accs = <<>>
  /\ folded = <<>>
  /\ consumed = {}
  /\ linear = TRUE
  /\ work = 0
  /\ output = NoOutput

CreateAccumulator ==
  /\ accs' = Append(accs, NewPartialNLStats)
  /\ folded' = Append(folded, <<>>)
  /\ output' = NoOutput
  /\ UNCHANGED <<cfg, trackers, consumed, linear, work>>

AddInput(a, batch) ==
  LET st == add_input([trackers |-> trackers, acc |-> accs[a], id |-> a],
                      batch, cfg)
  IN /\ trackers' = st.trackers
     /\ accs' = [accs EXCEPT ![a] = st.acc]
     /\ folded' = [folded EXCEPT ![a] = @ \o RowsRead(batch, cfg)]
     /\ linear' = (linear /\ a \notin consumed)
     /\ work' = work + WorkOf(batch, cfg)
     /\ output' = NoOutput
     /\ UNCHANGED <<cfg, consumed>>

RECURSIVE ConcatFolded(_, _)
ConcatFolded(f, ids) ==
  IF ids = <<>> THEN <<>> ELSE f[ids[1]] \o ConcatFolded(f, Tail(ids))

MergeAccumulators(ids) ==
  LET st == merge_accumulators(trackers, accs, ids, Len(accs) + 1)
  IN /\ trackers' = st.trackers
     /\ accs' = Append(accs, st.acc)
     /\ folded' = Append(folded, ConcatFolded(folded, ids))
     /\ consumed' = consumed \cup Range(ids)
     /\ linear' = (/\ linear
                   /\ Range(ids) \cap consumed = {}
                   /\ Cardinality(Range(ids)) = Len(ids))
     /\ output' = NoOutput
     /\ UNCHANGED <<cfg, work>>

Compact(a) ==
  /\ accs' = [accs EXCEPT ![a] = compact(@)]
  /\ linear' = (linear /\ a \notin consumed)
  /\ work' = work + 1
  /\ output' = NoOutput
  /\ UNCHANGED <<cfg, trackers, folded, consumed>>

ExtractOutput(a) ==
  LET st == ExtractOutputEffect(
              [trackers |-> trackers, acc |-> accs[a], id |-> a], cfg)
  IN /\ output' =
          IF ExtractRaises(trackers, accs[a], cfg)
            THEN [called |-> TRUE, raised |-> TRUE, result |-> EmptyResult]
            ELSE [called |-> TRUE, raised |-> FALSE,
                  result |-> extract_output(trackers, accs[a], cfg)]
     /\ trackers' = st.trackers
     /\ accs' = [accs EXCEPT ![a] = st.acc]
     /\ UNCHANGED <<cfg, folded, consumed, linear, work>>

\* the lists of accumulators a call of merge_accumulators may be given
MergeInputs == {<<>>} \cup SeqsUpTo(1..Len(accs), MaxMerge)

\* the bounds of the model cap the accumulators and the rows folded
Next ==
  \/ /\ Len(accs) < MaxAcc
     /\ CreateAccumulator
  \/ \E a \in 1..Len(accs) : \E batch \in Batches :
       /\ work + WorkOf(batch, cfg) <= MaxWork
       /\ AddInput(a, batch)
  \/ /\ Len(accs) < MaxAcc
     /\ \E ids \in MergeInputs : MergeAccumulators(ids)
  \/ \E a \in 1..Len(accs) :
       /\ work < MaxWork
       /\ Compact(a)
  \/ \E a \in 1..Len(accs) : ExtractOutput(a)

Spec == Init /\ [][Next]_vars

----------------------------------------------------------------------------
(* The sharded pipeline: every shard folds its rows into its own fresh     *)
(* accumulator, and merge_accumulators combines accumulators that no       *)
(* earlier merge has taken.                                                *)

NumShards == 3
MaxShardRows == 3
MaxShardMerges == 2

ShardRows ==
  {[type |-> "INT", toks |-> <<IntTok(1), IntTok(2), IntTok(1)>>],
   [type |-> "STRING", toks |-> <<>>],
   [type |-> "STRING", toks |-> <<StrTok(BB)>>],
   [type |-> "STRING", toks |-> <<StrTok(A), StrTok(BB), StrTok(A)>>],
   [type |-> "STRING", toks |-> <<StrTok(A), StrTok(U)>>]}

\* a feature array that holds one row
BatchOfRow(r) == [type |-> r.type, rows |-> <<Row(r.toks)>>]

InitShards ==
  /\ cfg = Setup(F1)
  /\ trackers = <<>>
  /\ accs = <<>>
  /\ folded = <<>>
  /\ consumed = {}
  /\ linear = TRUE
  /\ work = 0
  /\ output = NoOutput

\* lists of distinct accumulators that no merge has taken
ShardMergeInputs ==
  {ids \in SeqsUpTo((1..Len(accs)) \ consumed, NumShards) :
     Len(ids) >= 2 /\ Cardinality(Range(ids)) = Len(ids)}

\* the shards' accumulators are created first
CreateShard ==
  /\ Len(accs) < NumShards
  /\ work = 0
  /\ CreateAccumulator

MergeShards ==
  /\ Len(accs) >= NumShards
  /\ Len(accs) < NumShards + MaxShardMerges
  /\ \E ids \in ShardMergeInputs : MergeAccumulators(ids)

NextShards ==
  \/ CreateShard
  \/ \E a \in (1..Len(accs)) \ consumed : \E r \in ShardRows :
       /\ Len(accs) >= NumShards
       /\ a <= NumShards
       /\ work < MaxShardRows
       /\ AddInput(a, BatchOfRow(r))
  \/ MergeShards

SpecShards == InitShards /\ [][NextShards]_vars

----------------------------------------------------------------------------
(* The sharded pipeline fed with rows whose sample metrics are pairwise    *)
(* distinct: each feature array is read once, by any accumulator that no   *)
(* merge has taken.                                                        *)

CCC == <<"c", "c", "c">>

\* a feature without a vocabulary, whose out-of-vocabulary token is "u"
F3 ==
  [nl_domain |-> TRUE, vocabulary |-> "",
   excluded_string_tokens |-> {}, excluded_int_tokens |-> {},
   oov_string_tokens |-> {U},
   token_constraints |-> {},
   num_histogram_buckets |-> 2,
   num_quantiles_histogram_buckets |-> 2,
   num_rank_histogram_buckets |-> 2]

\* rows with coverage 0, 1, 1/2, 2/3, 3/4, 3/5, 1/3, 2/5 and average token
\* length 0, 1, 2, 3/2, 4/3, 5/3, 3, 5/2
Candidates ==
  <<<<StrTok(U)>>,
    <<StrTok(A)>>,
    <<StrTok(BB), StrTok(U)>>,
    <<StrTok(A), StrTok(BB), StrTok(U)>>,
    <<StrTok(A), StrTok(A), StrTok(BB), StrTok(U)>>,
    <<StrTok(A), StrTok(BB), StrTok(BB), StrTok(U), StrTok(U)>>,
    <<StrTok(CCC), StrTok(U), StrTok(U)>>,
    <<StrTok(BB), StrTok(CCC), StrTok(U), StrTok(U), StrTok(U)>>>>

\* the feature array that holds the candidates of the given indices
CandidateBatch(indices) ==
  [type |-> "STRING",
   rows |-> [i \in 1..Len(indices) |-> Row(Candidates[indices[i]])]]

CandidateBatches ==
  {CandidateBatch(<<2, 5>>), CandidateBatch(<<8, 1>>),
   CandidateBatch(<<4, 7>>), CandidateBatch(<<3, 6>>),
   CandidateBatch(<<2, 5, 4, 6, 3, 8, 7, 1>>)}

\* the rows any accumulator has read
RowsSeen == UNION {{r.toks : r \in Range(folded[a])} : a \in 1..Len(accs)}

InitSampler ==
  /\ cfg = Setup(F3)
  /\ trackers = <<>>
  /\ accs = <<>>
  /\ folded = <<>>
  /\ consumed = {}
  /\ linear = TRUE
  /\ work = 0
  /\ output = NoOutput

NextSampler ==
  \/ CreateShard
  \/ \E a \in (1..Len(accs)) \ consumed : \E batch \in CandidateBatches :
       /\ Len(accs) >= NumShards
       /\ \A i \in 1..Len(batch.rows) : batch.rows[i].toks \notin RowsSeen
       /\ AddInput(a, batch)
  \/ MergeShards

SpecSampler == InitSampler /\ [][NextSampler]_vars

----------------------------------------------------------------------------
(* One worker that folds single rows of both types, for features with and  *)
(* without a vocabulary.                                                   *)

MaxWorkerRows == 2

\* a feature with a vocabulary, an excluded token and no OOV token
F4 ==
  [nl_domain |-> TRUE, vocabulary |-> "vocab",
   excluded_string_tokens |-> {A}, excluded_int_tokens |-> {},
   oov_string_tokens |-> {},
   token_constraints |-> {},
   num_histogram_buckets |-> 2,
   num_quantiles_histogram_buckets |-> 2,
   num_rank_histogram_buckets |-> 2]

WorkerFeatures == {F1, F3, F4}

WorkerRows ==
  {[type |-> "INT", toks |-> <<>>],
   [type |-> "INT", toks |-> <<IntTok(1)>>],
   [type |-> "INT", toks |-> <<IntTok(2), IntTok(9)>>],
   [type |-> "INT", toks |-> <<IntTok(1), IntTok(2), IntTok(1)>>],
   [type |-> "INT", toks |-> <<IntTok(1), IntTok(1), IntTok(9), IntTok(1)>>],
   [type |-> "STRING", toks |-> <<>>],
   [type |-> "STRING", toks |-> <<StrTok(U)>>],
   [type |-> "STRING", toks |-> <<StrTok(A), StrTok(U)>>],
   [type |-> "STRING", toks |-> <<StrTok(A), StrTok(BB), StrTok(A)>>],
   [type |-> "STRING",
    toks |-> <<StrTok(A), StrTok(A), StrTok(BB), StrTok(A)>>]}

InitWorker ==
  /\ cfg \in {Setup(f) : f \in WorkerFeatures}
  /\ trackers = <<>>
  /\ accs = <<>>
  /\ folded = <<>>
  /\ consumed = {}
  /\ linear = TRUE
  /\ work = 0
  /\ output = NoOutput

NextWorker ==
  \/ /\ accs = <<>>
     /\ CreateAccumulator
  \/ \E a \in 1..Len(accs) : \E r \in WorkerRows :
       /\ work < MaxWorkerRows
       /\ AddInput(a, BatchOfRow(r))
  \/ \E a \in 1..Len(accs) : ExtractOutput(a)

SpecWorker == InitWorker /\ [][NextWorker]_vars

----------------------------------------------------------------------------
(* One worker that reads feature arrays with null rows and null arrays.    *)

MaxArrayWork == 3

InitArrays ==
  /\ cfg = Setup(F1)
  /\ trackers = <<>>
  /\ accs = <<>>
  /\ folded = <<>>
  /\ consumed = {}
  /\ linear = TRUE
  /\ work = 0
  /\ output = NoOutput

NextArrays ==
  \/ /\ accs = <<>>
     /\ CreateAccumulator
  \/ \E a \in 1..Len(accs) : \E batch \in Batches :
       /\ work + WorkOf(batch, cfg) <= MaxArrayWork
       /\ AddInput(a, batch)

SpecArrays == InitArrays /\ [][NextArrays]_vars

----------------------------------------------------------------------------
(* One worker that folds single rows for features that differ in the       *)
(* number of position histogram buckets.                                   *)

MaxBuckets == 4
MaxPositionRows == 2

\* F1 with num_histogram_buckets = b
FB(b) == [F1 EXCEPT !.num_histogram_buckets = b]

PositionRows ==
  {[type |-> "STRING", toks |-> <<StrTok(A)>>],
   [type |-> "STRING", toks |-> <<StrTok(BB), StrTok(A)>>],
   [type |-> "STRING", toks |-> <<StrTok(A), StrTok(BB), StrTok(A)>>],
   [type |-> "STRING",
    toks |-> <<StrTok(BB), StrTok(A), StrTok(U), StrTok(A)>>],
   [type |-> "STRING",
    toks |-> <<StrTok(A), StrTok(A), StrTok(A), StrTok(A), StrTok(A)>>],
   [type |-> "INT", toks |-> <<IntTok(2), IntTok(1)>>],
   [type |-> "INT", toks |-> <<IntTok(9), IntTok(2), IntTok(1)>>],
   [type |-> "INT",
    toks |-> <<IntTok(1), IntTok(1), IntTok(1), IntTok(1), IntTok(1)>>]}

InitPositions ==
  /\ cfg \in {Setup(FB(b)) : b \in 1..MaxBuckets}
  /\ trackers = <<>>
  /\ accs = <<>>
  /\ folded = <<>>
  /\ consumed = {}
  /\ linear = TRUE
  /\ work = 0
  /\ output = NoOutput

NextPositions ==
  \/ /\ accs = <<>>
     /\ CreateAccumulator
  \/ \E a \in 1..Len(accs) : \E r \in PositionRows :
       /\ work < MaxPositionRows
       /\ AddInput(a, BatchOfRow(r))
  \/ \E a \in 1..Len(accs) : ExtractOutput(a)

SpecPositions == InitPositions /\ [][NextPositions]_vars

----------------------------------------------------------------------------
(* One worker, for a feature whose schema holds a token constraint without *)
(* a value next to a well-formed one.                                      *)

MaxSetupRows == 2

\* F1 with a token constraint that has neither value
F5 ==
  [F1 EXCEPT !.token_constraints = {IntConstraint(1), UnsetConstraint}]

SetupFeatures == {F1, F5}

SetupRows ==
  {[type |-> "INT", toks |-> <<IntTok(1), IntTok(2), IntTok(1)>>],
   [type |-> "INT", toks |-> <<IntTok(2), IntTok(9)>>],
   [type |-> "STRING", toks |-> <<>>],
   [type |-> "STRING", toks |-> <<StrTok(A), StrTok(BB), StrTok(A)>>],
   [type |-> "STRING", toks |-> <<StrTok(<<>>), StrTok(A)>>],
   [type |-> "STRING", toks |-> <<StrTok(A), StrTok(U)>>]}

InitSetup ==
  /\ cfg \in {Setup(f) : f \in SetupFeatures}
  /\ trackers = <<>>
  /\ accs = <<>>
  /\ folded = <<>>
  /\ consumed = {}
  /\ linear = TRUE
  /\ work = 0
  /\ output = NoOutput

NextSetup ==
  \/ /\ accs = <<>>
     /\ CreateAccumulator
  \/ \E a \in 1..Len(accs) : \E r \in SetupRows :
       /\ work < MaxSetupRows
       /\ AddInput(a, BatchOfRow(r))
  \/ \E a \in 1..Len(accs) : ExtractOutput(a)

SpecSetup == InitSetup /\ [][NextSetup]_vars

----------------------------------------------------------------------------
(* Construction of the generator with rank histogram sizes around the      *)
(* capacity of the frequency sketch, followed by one worker.               *)

MaxConstructRows == 2

\* F1 with num_rank_histogram_buckets = n
FR(n) == [F1 EXCEPT !.num_rank_histogram_buckets = n]

ConstructFeatures ==
  {FR(n) : n \in {1, 2,
                  _NUM_MISRAGRIES_SKETCH_BUCKETS - 1,
                  _NUM_MISRAGRIES_SKETCH_BUCKETS,
                  _NUM_MISRAGRIES_SKETCH_BUCKETS + 1,
                  _NUM_MISRAGRIES_SKETCH_BUCKETS + 2}}

ConstructRows ==
  {[type |-> "INT", toks |-> <<IntTok(1), IntTok(2), IntTok(1)>>],
   [type |-> "STRING", toks |-> <<>>],
   [type |-> "STRING", toks |-> <<StrTok(A), StrTok(BB), StrTok(A)>>],
   [type |-> "STRING", toks |-> <<StrTok(A), StrTok(U)>>]}

Constructed == cfg # NotConstructed /\ cfg # AssertionRaised

Construct(f) ==
  /\ cfg = NotConstructed
  /\ cfg' = NLStatsGenerator(f)
  /\ UNCHANGED <<trackers, accs, folded, consumed, linear, work, output>>

InitConstruct ==
  /\ cfg = NotConstructed
  /\ trackers = <<>>
  /\ accs = <<>>
  /\ folded = <<>>
  /\ consumed = {}
  /\ linear = TRUE
  /\ work = 0
  /\ output = NoOutput

NextConstruct ==
  \/ \E f \in ConstructFeatures : Construct(f)
  \/ /\ Constructed
     /\ accs = <<>>
     /\ CreateAccumulator
  \/ /\ Constructed
     /\ \E a \in 1..Len(accs) : \E r \in ConstructRows :
          /\ work < MaxConstructRows
          /\ AddInput(a, BatchOfRow(r))
  \/ /\ Constructed
     /\ \E a \in 1..Len(accs) : ExtractOutput(a)

SpecConstruct == InitConstruct /\ [][NextConstruct]_vars

----------------------------------------------------------------------------
(* One worker that folds single rows of both types, for features with      *)
(* excluded integer tokens, excluded string tokens, OOV tokens and tracked *)
(* tokens.                                                                 *)

MaxCountRows == 2

\* a feature with a vocabulary and an excluded integer token
F6 ==
  [nl_domain |-> TRUE, vocabulary |-> "vocab",
   excluded_string_tokens |-> {}, excluded_int_tokens |-> {2},
   oov_string_tokens |-> {},
   token_constraints |-> {},
   num_histogram_buckets |-> 2,
   num_quantiles_histogram_buckets |-> 2,
   num_rank_histogram_buckets |-> 2]

\* a feature with a vocabulary, excluded tokens of both kinds and an OOV
\* token outside the vocabulary
F7 ==
  [nl_domain |-> TRUE, vocabulary |-> "vocab",
   excluded_string_tokens |-> {BB}, excluded_int_tokens |-> {9},
   oov_string_tokens |-> {U},
   token_constraints |-> {},
   num_histogram_buckets |-> 2,
   num_quantiles_histogram_buckets |-> 2,
   num_rank_histogram_buckets |-> 2]

\* F1 with tracked tokens that the vocabulary does not pair
F8 ==
  [F1 EXCEPT !.token_constraints = {IntConstraint(1), StrConstraint(U)}]

CountFeatures == {F1, F3, F4, F6, F7, F8}

InitCounts ==
  /\ cfg \in {Setup(f) : f \in CountFeatures}
  /\ trackers = <<>>
  /\ accs = <<>>
  /\ folded = <<>>
  /\ consumed = {}
  /\ linear = TRUE
  /\ work = 0
  /\ output = NoOutput

NextCounts ==
  \/ /\ accs = <<>>
     /\ CreateAccumulator
  \/ \E a \in 1..Len(accs) : \E r \in WorkerRows :
       /\ work < MaxCountRows
       /\ AddInput(a, BatchOfRow(r))
  \/ \E a \in 1..Len(accs) : ExtractOutput(a)

SpecCounts == InitCounts /\ [][NextCounts]_vars

----------------------------------------------------------------------------
(* The sharded pipeline fed with rows whose sample metrics tie: coverage   *)
(* 1, 1, 1, 0, 0, 1/2, 1/2, 1 and average token length 1, 2, 1, 0, 0, 1,   *)
(* 2, 3.                                                                   *)

MaxTieWork == 9

TieCandidates ==
  <<<<StrTok(A)>>,
    <<StrTok(BB)>>,
    <<StrTok(A), StrTok(A)>>,
    <<StrTok(U)>>,
    <<StrTok(U), StrTok(U)>>,
    <<StrTok(A), StrTok(U)>>,
    <<StrTok(BB), StrTok(U)>>,
    <<StrTok(CCC)>>>>

\* the feature array that holds the tie candidates of the given indices
TieBatch(indices) ==
  [type |-> "STRING",
   rows |-> [i \in 1..Len(indices) |-> Row(TieCandidates[indices[i]])]]

TieBatches ==
  {TieBatch(<<1, 2, 3>>), TieBatch(<<4, 6, 3>>),
   TieBatch(<<5, 7, 8>>), TieBatch(<<3, 1, 6>>)}

InitTies ==
  /\ cfg = Setup(F3)
  /\ trackers = <<>>
  /\ accs = <<>>
  /\ folded = <<>>
  /\ consumed = {}
  /\ linear = TRUE
  /\ work = 0
  /\ output = NoOutput

NextTies ==
  \/ CreateShard
  \/ \E a \in (1..Len(accs)) \ consumed : \E batch \in TieBatches :
       /\ Len(accs) >= NumShards
       /\ a <= NumShards
       /\ work + WorkOf(batch, cfg) <= MaxTieWork
       /\ AddInput(a, batch)
  \/ MergeShards

SpecTies == InitTies /\ [][NextTies]_vars

----------------------------------------------------------------------------
(* One worker that folds rows, fresh accumulators next to it, and merges   *)
(* of up to three accumulators that no merge has taken, in any order.      *)

MaxIdentityAcc == 5
MaxIdentityWork == 2
MaxIdentityMerge == 3

\* feature arrays of one row, and an array add_input rejects
IdentityBatches ==
  {BatchOfRow(r) : r \in ShardRows} \cup {[type |-> "FLOAT", rows |-> <<>>]}

\* the lists of accumulators a call of merge_accumulators may be given
IdentityMergeInputs ==
  {<<>>} \cup
  {ids \in SeqsUpTo((1..Len(accs)) \ consumed, MaxIdentityMerge) :
     Cardinality(Range(ids)) = Len(ids)}

NextIdentity ==
  \/ /\ Len(accs) < MaxIdentityAcc
     /\ CreateAccumulator
  \/ \E batch \in IdentityBatches :
       /\ accs # <<>>
       /\ 1 \notin consumed
       /\ work + WorkOf(batch, cfg) <= MaxIdentityWork
       /\ AddInput(1, batch)
  \/ /\ Len(accs) < MaxIdentityAcc
     /\ \E ids \in IdentityMergeInputs : MergeAccumulators(ids)

SpecIdentity == Init /\ [][NextIdentity]_vars

----------------------------------------------------------------------------
(* Helpers of the properties *)

AccIds == 1..Len(accs)

\* the _TokenStats values an accumulator's token_statistics refers to
TrackerValues(heap, acc) ==
  [t \in DOMAIN acc.token_statistics |-> heap[acc.token_statistics[t]]]

\* the fields of an accumulator that are not sketches or samples
ExactFields(heap, acc) ==
  [num_examples |-> acc.num_examples,
   total_num_tokens |-> acc.total_num_tokens,
   num_in_vocab_tokens |-> acc.num_in_vocab_tokens,
   sum_in_vocab_token_lengths |-> acc.sum_in_vocab_token_lengths,
   token_statistics |-> TrackerValues(heap, acc)]

\* the accumulator merge_accumulators(ids) would return in this state,
\* with the heap after the call
Merged(ids) == merge_accumulators(trackers, accs, ids, Len(accs) + 1)

TrackedTokens == cfg.int_tokens \cup cfg.string_tokens

\* the number of positions of a row that hold token t, as itself or as the
\* token the vocabulary pairs it with
Occurrences(t, row) ==
  Cardinality({i \in 1..Len(row.toks) :
    \/ row.toks[i] = t
    \/ /\ cfg.has_vocab
       /\ \/ row.toks[i] \in DOMAIN cfg.vocab /\ cfg.vocab[row.toks[i]] = t
          \/ row.toks[i] \in DOMAIN cfg.rvocab /\ cfg.rvocab[row.toks[i]] = t})

RECURSIVE SumOver(_, _)
SumOver(f, S) ==
  IF S = {} THEN 0
  ELSE LET x == CHOOSE y \in S : TRUE IN f[x] + SumOver(f, S \ {x})

\* folding rows one by one into the accumulator of st
RECURSIVE FoldOnOneWorker(_, _)
FoldOnOneWorker(st, rows) ==
  IF rows = <<>> THEN st
  ELSE FoldOnOneWorker(add_input(st, BatchOfRow(rows[1]), cfg), Tail(rows))

\* the accumulator of a single worker that folds all rows, with its heap
SingleWorker(rows) ==
  FoldOnOneWorker([trackers |-> <<>>, acc |-> NewPartialNLStats, id |-> 0],
                  rows)

\* merge(x, y) for accumulators x, y of the list all, with the heap and the
\* list after the call
MergePair(st, x, y) ==
  LET m == merge_accumulators(st.trackers, st.all, <<x, y>>,
                              Len(st.all) + 1)
  IN [trackers |-> m.trackers, all |-> Append(st.all, m.acc)]

\* the fields of an extracted output that are not sketches or samples
ExactOutput(result) ==
  [nl_feature_coverage |-> result.nl_feature_coverage,
   nl_avg_token_length |-> result.nl_avg_token_length,
   nl_token |-> result.nl_token]

----------------------------------------------------------------------------
(* C1: for rows partitioned into shards, folding every shard with          *)
(* add_input into its own fresh accumulator and combining the shard        *)
(* accumulators with merge_accumulators, in any grouping and order, gives  *)
(* the exact fields (num_examples, total_num_tokens, num_in_vocab_tokens,  *)
(* sum_in_vocab_token_lengths and every token's frequency, num_sequences,  *)
(* per-sequence min and max, position counts) that folding all the rows,   *)
(* in any order, into one accumulator gives.                               *)

C1_ShardingEquivalence ==
  \A a \in AccIds \ consumed :
    \A p \in Permutations(1..Len(folded[a])) :
      LET w == SingleWorker([i \in 1..Len(folded[a]) |-> folded[a][p[i]]])
      IN ExactFields(trackers, accs[a]) = ExactFields(w.trackers, w.acc)

\* three rows, folded by at least two shards, merged into one accumulator
\* that refers to a _TokenStats of a shard
C1_Witness ==
  \E a \in AccIds \ consumed :
    /\ a > NumShards
    /\ Len(folded[a]) = MaxShardRows
    /\ \E b, c \in consumed :
         /\ b # c
         /\ folded[b] # <<>> /\ folded[c] # <<>>
         /\ StrTok(A) \in DOMAIN accs[b].token_statistics
         /\ StrTok(A) \in DOMAIN accs[c].token_statistics
    /\ trackers[accs[a].token_statistics[StrTok(A)]].frequency >= 3
    /\ trackers[accs[a].token_statistics[StrTok(A)]]
         .per_sequence_min_frequency
           # trackers[accs[a].token_statistics[StrTok(A)]]
               .per_sequence_max_frequency

----------------------------------------------------------------------------
(* C2: for three accumulators A, B, C built from disjoint rows,            *)
(* merge(merge(A, B), C) and merge(A, merge(B, C)) have the same exact     *)
(* fields and the same extracted output for the exact fields (per-token    *)
(* statistics, feature coverage, average token length).                    *)

C2_MergeAssociates ==
  \A a, b, c \in AccIds \ consumed :
    (a # b /\ b # c /\ a # c) =>
      LET n == Len(accs)
          s0 == [trackers |-> trackers, all |-> accs]
          left == MergePair(MergePair(s0, a, b), n + 1, c)
          right == MergePair(MergePair(s0, b, c), a, n + 1)
      IN /\ ExactFields(left.trackers, left.all[n + 2])
              = ExactFields(right.trackers, right.all[n + 2])
         /\ ExactOutput(extract_output(left.trackers, left.all[n + 2], cfg))
              = ExactOutput(extract_output(right.trackers,
                                           right.all[n + 2], cfg))

\* three accumulators that hold rows with a common tracked token, in
\* different numbers
C2_Witness ==
  /\ consumed = {}
  /\ Len(accs) = NumShards
  /\ \A a \in AccIds : StrTok(A) \in DOMAIN accs[a].token_statistics
  /\ \E a, b \in AccIds :
       trackers[accs[a].token_statistics[StrTok(A)]].frequency
         # trackers[accs[b].token_statistics[StrTok(A)]].frequency

----------------------------------------------------------------------------
(* C3: for any two accumulators A and B, merge(A, B) and merge(B, A) have  *)
(* equal scalar sums and, for every token, equal frequency and             *)
(* num_sequences.                                                          *)

C3_MergeCommutes ==
  \A a, b \in AccIds :
    LET ab == Merged(<<a, b>>)
        ba == Merged(<<b, a>>)
        x == TrackerValues(ab.trackers, ab.acc)
        y == TrackerValues(ba.trackers, ba.acc)
    IN /\ ab.acc.num_examples = ba.acc.num_examples
       /\ ab.acc.total_num_tokens = ba.acc.total_num_tokens
       /\ ab.acc.num_in_vocab_tokens = ba.acc.num_in_vocab_tokens
       /\ ab.acc.sum_in_vocab_token_lengths = ba.acc.sum_in_vocab_token_lengths
       /\ DOMAIN x = DOMAIN y
       /\ \A t \in DOMAIN x :
            /\ x[t].frequency = y[t].frequency
            /\ x[t].num_sequences = y[t].num_sequences

\* two accumulators that hold different counts of a common token
C3_Witness ==
  \E a, b \in AccIds :
    /\ accs[a].total_num_tokens # accs[b].total_num_tokens
    /\ \E t \in DOMAIN accs[a].token_statistics
                \cap DOMAIN accs[b].token_statistics :
         LET x == trackers[accs[a].token_statistics[t]]
             y == trackers[accs[b].token_statistics[t]]
         IN x.frequency # y.frequency /\ x.num_sequences > 0
            /\ y.num_sequences > 0

----------------------------------------------------------------------------
(* C4: when at least one accumulator passed to merge_accumulators is       *)
(* invalidated, extract_output of the merged accumulator is empty (no      *)
(* custom_stats), whatever valid data the other accumulators hold; an      *)
(* invalidated accumulator always extracts to the empty result, so the     *)
(* same holds for every later merge that takes the merged accumulator.     *)

C4_InvalidatedMergeExtractsEmpty ==
  [][\A ids \in MergeInputs :
       (/\ \E i \in Range(ids) : accs[i].invalidate
        /\ Len(accs') = Len(accs) + 1
        /\ consumed' = consumed \cup Range(ids)
        /\ MergeAccumulators(ids))
         => /\ accs'[Len(accs')].invalidate
            /\ ~ExtractRaises(trackers', accs'[Len(accs')], cfg')
            /\ extract_output(trackers', accs'[Len(accs')], cfg')
                 = EmptyResult]_vars

\* the last accumulator was merged from an invalidated accumulator and from
\* a valid one that holds rows (it refers to that one's _TokenStats), and
\* its extracted output was empty
C4_Witness ==
  /\ Len(accs) >= 3
  /\ output.called /\ ~output.raised /\ output.result = EmptyResult
  /\ accs[Len(accs)].invalidate
  /\ accs[Len(accs)].num_examples > 0
  /\ \E b, c \in consumed :
       /\ ~accs[b].invalidate
       /\ accs[b].num_examples > 0
       /\ \E t \in DOMAIN accs[Len(accs)].token_statistics :
            accs[Len(accs)].token_statistics[t] = <<b, t>>
       /\ accs[c].invalidate

----------------------------------------------------------------------------
(* C5: the invalidate flag is monotone.  Once an accumulator's invalidate  *)
(* is true no call (add_input, merge_accumulators with it as an input,     *)
(* compact, extract_output) makes it false, and every accumulator produced *)
(* by a merge that includes it is invalidated.                             *)

C5_InvalidateMonotone ==
  [][/\ \A a \in AccIds : accs[a].invalidate => accs'[a].invalidate
     /\ \A ids \in MergeInputs :
          (/\ \E i \in Range(ids) : accs[i].invalidate
           /\ Len(accs') = Len(accs) + 1
           /\ consumed' = consumed \cup Range(ids)
           /\ MergeAccumulators(ids))
            => accs'[Len(accs')].invalidate]_vars

\* an invalidated accumulator that was merged, with the invalidated result
\* of a merge (it refers to another accumulator's _TokenStats)
C5_Witness ==
  \E a \in consumed : \E r \in AccIds \ {a} :
    /\ accs[a].invalidate
    /\ accs[r].invalidate
    /\ \E t \in DOMAIN accs[r].token_statistics :
         accs[r].token_statistics[t][1] # r

----------------------------------------------------------------------------
(* C6: when the batches folded into one accumulator have inconsistent      *)
(* types (an integer batch and a string batch), the accumulator is         *)
(* invalidated and the feature's output is suppressed.                     *)

C6_TypeInconsistencyInvalidates ==
  \A a \in AccIds :
    (\E i, j \in 1..Len(folded[a]) : folded[a][i].type # folded[a][j].type)
      => /\ accs[a].invalidate
         /\ extract_output(trackers, accs[a], cfg) = EmptyResult

----------------------------------------------------------------------------
(* C7: every accumulator reachable from create_accumulator by add_input,   *)
(* merge_accumulators and compact is extractable: extract_output neither   *)
(* divides by zero nor reads an absent min/max bound.                      *)

C7_AlwaysExtractable ==
  linear => /\ \A a \in AccIds \ consumed :
                 ~ExtractRaises(trackers, accs[a], cfg)
            /\ ~output.raised

\* extract_output returned for an accumulator that holds only empty rows
C7_Witness ==
  /\ linear
  /\ output.called /\ ~output.raised
  /\ output.result.nl_statistics # None
  /\ \E a \in AccIds \ consumed :
       /\ accs[a].num_examples > 0
       /\ accs[a].token_statistics = <<>>
       /\ output.result = extract_output(trackers, accs[a], cfg)

----------------------------------------------------------------------------
(* C8: for a tracked token t and the rows folded into an accumulator that  *)
(* no batch invalidated, when every row contains t, the extracted          *)
(* statistics are: frequency = the occurrences of t, num_sequences = the   *)
(* number of rows, per_sequence_min/max_frequency = the least/most         *)
(* occurrences in one row, fraction_of_sequences = num_sequences /         *)
(* num_examples.                                                           *)

C8_TokenStatisticsOfRows ==
  \A a \in AccIds \ consumed : \A t \in TrackedTokens :
    LET rows == folded[a]
        occ == [i \in 1..Len(rows) |-> Occurrences(t, rows[i])]
    IN (/\ linear
        /\ ~accs[a].invalidate
        /\ rows # <<>>
        /\ \A i \in 1..Len(rows) : occ[i] >= 1)
         => /\ t \in DOMAIN accs[a].token_statistics
            /\ LET stats == trackers[accs[a].token_statistics[t]]
                   proto == extract_output(trackers, accs[a], cfg).nl_token[t]
               IN /\ stats.num_sequences = Len(rows)
                  /\ proto.frequency = Some(SumOver(occ, DOMAIN occ))
                  /\ proto.per_sequence_min_frequency
                       = Some(CHOOSE m \in Range(occ) :
                                \A n \in Range(occ) : m <= n)
                  /\ proto.per_sequence_max_frequency
                       = Some(CHOOSE m \in Range(occ) :
                                \A n \in Range(occ) : m >= n)
                  /\ proto.fraction_of_sequences
                       = Some(Quot(Len(rows), accs[a].num_examples))
                  /\ proto.fraction_of_sequences = Some(<<1, 1>>)

\* rows [a, bb, a] and [a, u] with tracked token a: 3, 2, 1, 2, 1.0
C8_Witness ==
  \E a \in AccIds \ consumed :
    /\ linear
    /\ folded[a] = <<[type |-> "STRING",
                      toks |-> <<StrTok(A), StrTok(BB), StrTok(A)>>],
                     [type |-> "STRING", toks |-> <<StrTok(A), StrTok(U)>>]>>
    /\ StrTok(A) \in cfg.string_tokens
    /\ LET proto == extract_output(trackers, accs[a], cfg).nl_token[StrTok(A)]
       IN /\ proto.frequency = Some(3)
          /\ trackers[accs[a].token_statistics[StrTok(A)]].num_sequences = 2
          /\ proto.per_sequence_min_frequency = Some(1)
          /\ proto.per_sequence_max_frequency = Some(2)
          /\ proto.fraction_of_sequences = Some(<<1, 1>>)
    /\ output.called
    /\ output.result = extract_output(trackers, accs[a], cfg)

----------------------------------------------------------------------------
(* The sample lists *)

\* list holds the min(n, K) entries of the candidates with the smallest
\* metric, ascending
IsSmallestAscending(list, candidates) ==
  /\ Len(list) = MinOf(Len(candidates), _NUM_REPORTED_SEQUENCES_PER_TYPE)
  /\ \A i \in 1..Len(list) : list[i] \in Range(candidates)
  /\ \A i, j \in 1..Len(list) : i < j => QuotLT(list[i][2], list[j][2])
  /\ \A e \in Range(candidates) \ Range(list) :
       \A i \in 1..Len(list) : QuotLT(list[i][2], e[2])

DistinctMetrics(candidates) ==
  \A i, j \in 1..Len(candidates) :
    i # j => candidates[i][2] # candidates[j][2]

(* C9: when the sample candidates have pairwise distinct metric values,    *)
(* after any sequence of row folds and merges each of the two sample lists *)
(* of an accumulator holds the min(n, K) candidates with the smallest      *)
(* metric among the n candidates the accumulator has seen, in ascending    *)
(* order of the metric, K = 5 (8 candidates leave the 5 smallest).         *)

C9_SamplesAreSmallest ==
  \A a \in AccIds \ consumed :
    LET rows == SelectSeq(folded[a], LAMBDA r : r.toks # <<>>)
        by_coverage ==
          [i \in 1..Len(rows) |->
             <<rows[i].toks,
               SequenceCoverage(rows[i].toks, cfg.oov_string_tokens)>>]
        by_length ==
          [i \in 1..Len(rows) |->
             <<rows[i].toks,
               SequenceAvgTokenLen(rows[i].toks, cfg.oov_string_tokens)>>]
    IN /\ DistinctMetrics(by_coverage)
            => IsSmallestAscending(accs[a].reported_sequences_coverage,
                                   by_coverage)
       /\ DistinctMetrics(by_length)
            => IsSmallestAscending(
                 accs[a].reported_sequences_avg_token_length, by_length)

\* an accumulator merged from accumulators that had read candidates has
\* seen K + 3 candidates and keeps K of them
C9_Witness ==
  \E a \in AccIds \ consumed :
    /\ a > NumShards
    /\ Len(folded[a]) = _NUM_REPORTED_SEQUENCES_PER_TYPE + 3
    /\ [i \in 1..Len(accs[a].reported_sequences_coverage) |->
          accs[a].reported_sequences_coverage[i][2]]
         = <<<<0, 1>>, <<1, 3>>, <<2, 5>>, <<1, 2>>, <<3, 5>>>>
    /\ [i \in 1..Len(accs[a].reported_sequences_avg_token_length) |->
          accs[a].reported_sequences_avg_token_length[i][2]]
         = <<<<0, 1>>, <<1, 1>>, <<4, 3>>, <<3, 2>>, <<5, 3>>>>
    /\ \E b, c \in consumed :
         /\ b # c
         /\ Len(folded[b]) >= 2
         /\ Len(folded[c]) >= 2

----------------------------------------------------------------------------
(* The coverage metric of a row *)

\* the entry a row is recorded as
RecordedEntry(row) ==
  IF row.type = "INT" /\ cfg.rvocab # <<>>
    THEN ResolveRow(cfg.rvocab, row.toks)
    ELSE row.toks

\* position i of the row resolves in the vocabulary
InVocabulary(row, i) ==
  /\ cfg.has_vocab
  /\ IF row.type = "INT" THEN row.toks[i] \in DOMAIN cfg.rvocab
                         ELSE row.toks[i] \in DOMAIN cfg.vocab

\* position i of the row holds, or resolves to, an OOV string token
IsOov(row, i) ==
  IF row.type = "INT"
    THEN /\ cfg.has_vocab
         /\ row.toks[i] \in DOMAIN cfg.rvocab
         /\ cfg.rvocab[row.toks[i]] \in cfg.oov_string_tokens
    ELSE row.toks[i] \in cfg.oov_string_tokens

\* (positions in the vocabulary and not OOV) / (row length)
InVocabCoverage(row) ==
  Quot(Cardinality({i \in 1..Len(row.toks) :
                      InVocabulary(row, i) /\ ~IsOov(row, i)}),
       Len(row.toks))

\* as InVocabCoverage for an integer row; (positions not OOV) / (row
\* length) for a string row
NotOovCoverage(row) ==
  IF row.type = "INT" THEN InVocabCoverage(row)
  ELSE Quot(Cardinality({i \in 1..Len(row.toks) : ~IsOov(row, i)}),
            Len(row.toks))

\* the coverage sample list of an accumulator that has read at most K
\* rows, when Metric(row) is the recorded metric
CoverageSamples(rows, Metric(_)) ==
  LET nonempty == SelectSeq(rows, LAMBDA r : r.toks # <<>>)
  IN SortByMetric([i \in 1..Len(nonempty) |->
                     <<RecordedEntry(nonempty[i]), Metric(nonempty[i])>>])

(* C10: the coverage metric recorded with the sample candidate of a        *)
(* non-empty row.  For an integer row it is (number of positions whose     *)
(* token resolves in the vocabulary to a string that is not in the         *)
(* out-of-vocabulary set) / (row length).  For a string row it is (number  *)
(* of positions whose token is not in the out-of-vocabulary set) / (row    *)
(* length): the vocabulary is not consulted.                               *)

C10_CoverageMetric ==
  \A a \in AccIds \ consumed :
    (linear /\ ~accs[a].invalidate
       /\ Len(folded[a]) <= _NUM_REPORTED_SEQUENCES_PER_TYPE)
      => accs[a].reported_sequences_coverage
           = CoverageSamples(folded[a], NotOovCoverage)

(* C10 as stated: for every non-empty row, integer or string, the metric   *)
(* is (number of positions whose token resolves in the vocabulary and is   *)
(* not in the out-of-vocabulary set) / (row length).                       *)

C10_CoverageMetricInVocabulary ==
  \A a \in AccIds \ consumed :
    (linear /\ ~accs[a].invalidate
       /\ Len(folded[a]) <= _NUM_REPORTED_SEQUENCES_PER_TYPE)
      => accs[a].reported_sequences_coverage
           = CoverageSamples(folded[a], InVocabCoverage)

\* an integer row with 3 of 4 tokens in the vocabulary, recorded with 3/4,
\* and a string row with a token that is neither in the vocabulary nor OOV
C10_Witness ==
  /\ cfg.has_vocab
  /\ StrTok(U) \notin DOMAIN cfg.vocab
  /\ StrTok(U) \notin cfg.oov_string_tokens
  /\ accs # <<>>
  /\ folded[1] = <<[type |-> "INT",
                    toks |-> <<IntTok(1), IntTok(1), IntTok(9), IntTok(1)>>],
                   [type |-> "STRING", toks |-> <<StrTok(A), StrTok(U)>>]>>
  /\ accs[1].reported_sequences_coverage
       = <<<<<<StrTok(A), StrTok(A), IntTok(9), StrTok(A)>>, <<3, 4>>>>,
           <<<<StrTok(A), StrTok(U)>>, <<1, 1>>>>>>

----------------------------------------------------------------------------
\* the feature arrays with a null row, and the null arrays
NullBatches ==
  {batch \in Batches :
     batch.type = "NULL" \/ \E i \in 1..Len(batch.rows) : batch.rows[i].null}

\* the array without its null rows
WithoutNulls(batch) ==
  [batch EXCEPT !.rows = SelectSeq(@, LAMBDA r : ~r.null)]

(* C11: for a valid feature, add_input leaves the accumulator as it would  *)
(* be without the null rows of the array, in every field (num_examples,    *)
(* token counters, token_statistics, sample lists, sketches, invalidate);  *)
(* an array of null rows only, and a null (untyped) array, leave every     *)
(* field unchanged.                                                        *)

C11_NullRowsChangeNothing ==
  [][\A a \in AccIds : \A batch \in NullBatches :
       (/\ cfg.valid
        /\ work' = work + WorkOf(batch, cfg)
        /\ AddInput(a, batch))
         => LET st == add_input([trackers |-> trackers, acc |-> accs[a],
                                 id |-> a], WithoutNulls(batch), cfg)
            IN /\ accs' = [accs EXCEPT ![a] = st.acc]
               /\ trackers' = st.trackers
               /\ (batch.type = "NULL"
                     \/ \A i \in 1..Len(batch.rows) : batch.rows[i].null)
                    => (accs' = accs /\ trackers' = trackers)]_vars

\* the accumulator holds a row with tracked tokens and has read more rows
\* and arrays than it has folded rows
C11_Witness ==
  /\ cfg.valid
  /\ accs # <<>>
  /\ ~accs[1].invalidate
  /\ accs[1].num_examples = 1
  /\ accs[1].token_statistics # <<>>
  /\ accs[1].reported_sequences_coverage # <<>>
  /\ work = MaxArrayWork

----------------------------------------------------------------------------
\* the feature arrays that hold one empty row
EmptyRowBatches ==
  {[type |-> "INT", rows |-> <<Row(<<>>)>>],
   [type |-> "STRING", rows |-> <<Row(<<>>)>>]}

(* C12: folding an empty, non-null sequence, integer or string, adds 1 to  *)
(* num_examples and changes nothing else: no token_statistics entry is     *)
(* created or updated, no sample is recorded, the token counters and both  *)
(* sketches are unchanged.                                                 *)

C12_EmptyRowCountsOneExample ==
  [][\A a \in AccIds : \A batch \in EmptyRowBatches :
       (/\ cfg.valid
        /\ work' = work + 1
        /\ Len(folded'[a]) = Len(folded[a]) + 1
        /\ AddInput(a, batch))
         => /\ accs' = [accs EXCEPT ![a].num_examples = @ + 1]
            /\ trackers' = trackers]_vars

\* an empty row was folded after a row with tracked tokens
C12_Witness ==
  \E a \in AccIds \ consumed :
    /\ linear
    /\ Len(folded[a]) = 2
    /\ folded[a][1].toks # <<>>
    /\ folded[a][2].toks = <<>>
    /\ accs[a].num_examples = 2
    /\ \E t \in DOMAIN accs[a].token_statistics :
         trackers[accs[a].token_statistics[t]].num_sequences = 1

----------------------------------------------------------------------------
(* C13: compact changes only the representation of the quantile sketch:    *)
(* invalidate, the four scalar counters, the frequency sketch,             *)
(* token_statistics, both sample lists and the values the quantile sketch  *)
(* was given are the same before and after, no other accumulator and no    *)
(* _TokenStats object changes, and the accumulator keeps its identity.     *)

C13_CompactKeepsFields ==
  [][\A a \in AccIds :
       (/\ work' = work + 1
        /\ folded' = folded
        /\ Compact(a))
         => /\ trackers' = trackers
            /\ Len(accs') = Len(accs)
            /\ \A b \in AccIds \ {a} : accs'[b] = accs[b]
            /\ [accs'[a] EXCEPT !.vocab_token_length_quantiles =
                                  accs[a].vocab_token_length_quantiles]
                 = accs[a]
            /\ accs'[a].vocab_token_length_quantiles.values
                 = accs[a].vocab_token_length_quantiles.values]_vars

\* an accumulator that holds in-vocabulary tokens, tracked tokens and
\* samples, after compact
C13_Witness ==
  \E a \in AccIds :
    /\ accs[a].vocab_token_length_quantiles.values # EmptyCounter
    /\ accs[a].vocab_token_length_quantiles.compacted
    /\ accs[a].token_occurrence_counts # NewMisraGriesSketch
    /\ accs[a].token_statistics # <<>>
    /\ accs[a].reported_sequences_coverage # <<>>
    /\ accs[a].num_in_vocab_tokens > 0

----------------------------------------------------------------------------
(* C14: in every reachable state, after any sequence of row folds and      *)
(* merges, every _TokenStats object has frequency >= num_sequences         *)
(* whenever num_sequences > 0.                                             *)

C14_FrequencyAtLeastSequences ==
  \A x \in DOMAIN trackers :
    trackers[x].num_sequences > 0
      => trackers[x].frequency >= trackers[x].num_sequences

\* a _TokenStats object that a merge has added another one to: 3
\* occurrences in 2 sequences
C14_Witness ==
  \E a \in AccIds : \E t \in DOMAIN accs[a].token_statistics :
    /\ accs[a].token_statistics[t][1] # a
    /\ trackers[accs[a].token_statistics[t]].num_sequences = 2
    /\ trackers[accs[a].token_statistics[t]].frequency = 3

----------------------------------------------------------------------------
(* C15: a tracked token's per_sequence_min_frequency and                   *)
(* per_sequence_max_frequency are absent until the token is first observed *)
(* in a folded sequence: while no sequence folded into an accumulator      *)
(* contains the token, the accumulator has no bounds for it, so folding a  *)
(* sequence without the token does not define them.                        *)

C15_BoundsAbsentUntilObserved ==
  \A a \in AccIds \ consumed : \A t \in TrackedTokens :
    (/\ linear
     /\ \A i \in 1..Len(folded[a]) : Occurrences(t, folded[a][i]) = 0
     /\ t \in DOMAIN accs[a].token_statistics)
      => LET stats == trackers[accs[a].token_statistics[t]]
         IN /\ stats.per_sequence_min_frequency = None
            /\ stats.per_sequence_max_frequency = None

----------------------------------------------------------------------------
\* position i (from 1) of the row holds token t, as itself or as the token
\* the vocabulary pairs it with
HoldsToken(t, row, i) ==
  \/ row.toks[i] = t
  \/ /\ cfg.has_vocab
     /\ \/ row.toks[i] \in DOMAIN cfg.vocab /\ cfg.vocab[row.toks[i]] = t
        \/ row.toks[i] \in DOMAIN cfg.rvocab /\ cfg.rvocab[row.toks[i]] = t

\* the occurrences <<row number, index from 0>> of t in the rows whose
\* position index / length lies in [k / B, (k + 1) / B)
OccurrencesInBucket(t, rows, k, B) ==
  UNION {{<<r, i>> : i \in {j \in 0..(Len(rows[r].toks) - 1) :
                              /\ HoldsToken(t, rows[r], j + 1)
                              /\ k * Len(rows[r].toks) <= j * B
                              /\ j * B < (k + 1) * Len(rows[r].toks)}} :
         r \in 1..Len(rows)}

(* C16: with B = num_histogram_buckets, an occurrence of a tracked token   *)
(* at index i (from 0) of a sequence of length n is counted in bucket      *)
(* floor((i / n) * B), which lies in 0..B-1: the positions counter of the  *)
(* token holds, for every k, the number of its occurrences with            *)
(* k/B <= i/n < (k+1)/B, and has no other key.  On extraction the buckets  *)
(* are reported in ascending k, bucket k as [k/B, (k+1)/B) with its count. *)

----------------------------------------------------------------------------
\* the token constraints of a feature that have neither a string value nor
\* an integer value
Malformed(f) ==
  {t \in f.token_constraints : t.value \notin {"int_value", "string_value"}}

(* C17: a token constraint with neither a string value nor an integer      *)
(* value is a configuration error of setup: no state after setup has the   *)
(* configuration of a feature with such a constraint in which the          *)
(* constraint is a tracked token, a _TokenStats object exists for it, or   *)
(* add_input has run.                                                      *)

C17_MalformedConstraintRejected ==
  \A f \in SetupFeatures : \A t \in Malformed(f) :
    cfg = Setup(f)
      => /\ StrTok(t.string_value) \notin cfg.string_tokens
         /\ \A x \in DOMAIN trackers : x[2] # StrTok(t.string_value)
         /\ work = 0

----------------------------------------------------------------------------
(* C18: constructing the generator with num_rank_histogram_buckets greater *)
(* than 16384 raises an error that names the limit, and no accumulator is  *)
(* created, folded or extracted after it; with a value up to and including *)
(* 16384 the generator is constructed with that value.                     *)

C18_RankBucketsChecked ==
  /\ [](cfg = AssertionRaised
          => accs = <<>> /\ trackers = <<>> /\ work = 0 /\ ~output.called)
  /\ [][\A f \in ConstructFeatures :
          Construct(f)
            => IF f.num_rank_histogram_buckets > 16384
                 THEN /\ cfg' # NotConstructed
                      /\ DOMAIN cfg' = {"raised", "limit"}
                      /\ cfg'.limit = 16384
                 ELSE /\ cfg' = Setup(f)
                      /\ cfg'.num_rank_histogram_buckets
                           = f.num_rank_histogram_buckets]_vars

\* the construction with 16385 buckets has failed
C18_Witness ==
  /\ cfg = AssertionRaised
  /\ accs = <<>>
  /\ \E f \in ConstructFeatures :
       /\ f.num_rank_histogram_buckets = 16385
       /\ NLStatsGenerator(f) = cfg

----------------------------------------------------------------------------
\* position i of the row holds an excluded token: one in the excluded set
\* of its own type, or one the vocabulary resolves to an excluded token of
\* the other type
IsExcluded(row, i) ==
  IF row.type = "INT"
    THEN \/ row.toks[i] \in cfg.excluded_int_tokens
         \/ /\ cfg.has_vocab
            /\ row.toks[i] \in DOMAIN cfg.rvocab
            /\ cfg.rvocab[row.toks[i]] \in cfg.excluded_string_tokens
    ELSE \/ row.toks[i] \in cfg.excluded_string_tokens
         \/ /\ cfg.has_vocab
            /\ row.toks[i] \in DOMAIN cfg.vocab
            /\ cfg.vocab[row.toks[i]] \in cfg.excluded_int_tokens

\* the length of the string that position i of the row holds or resolves to
StringLenAt(row, i) ==
  IF row.type = "INT" THEN Len(cfg.rvocab[row.toks[i]].s)
                      ELSE Len(row.toks[i].s)

\* not excluded, resolves in the vocabulary and is not OOV
CountedInVocabulary(row, i) ==
  ~IsExcluded(row, i) /\ InVocabulary(row, i) /\ ~IsOov(row, i)

\* as CountedInVocabulary for an integer row; not excluded and not OOV for
\* a string row
CountedNotOov(row, i) ==
  IF row.type = "INT" THEN CountedInVocabulary(row, i)
  ELSE ~IsExcluded(row, i) /\ ~IsOov(row, i)

\* the three token counters after folding the rows, when Counted(row, i)
\* says which positions count as in-vocabulary
TokenCounters(rows, Counted(_, _)) ==
  LET R == 1..Len(rows)
      pos(r) == {i \in 1..Len(rows[r].toks) : Counted(rows[r], i)}
  IN [total |->
        SumOver([r \in R |->
                   Cardinality({i \in 1..Len(rows[r].toks) :
                                  ~IsExcluded(rows[r], i)})], R),
      in_vocab |-> SumOver([r \in R |-> Cardinality(pos(r))], R),
      lengths |->
        SumOver([r \in R |->
                   SumOver([i \in pos(r) |-> StringLenAt(rows[r], i)],
                           pos(r))], R)]

\* total_num_tokens, num_in_vocab_tokens and sum_in_vocab_token_lengths
CountersOf(acc) ==
  [total |-> acc.total_num_tokens,
   in_vocab |-> acc.num_in_vocab_tokens,
   lengths |-> acc.sum_in_vocab_token_lengths]

(* C19: folding a row adds to total_num_tokens the number of its tokens    *)
(* that are not excluded (neither integer-excluded nor string-excluded,    *)
(* directly or through the vocabulary).  For an integer row                *)
(* num_in_vocab_tokens grows by the number of those tokens that resolve in *)
(* the vocabulary to a string that is not OOV; for a string row it grows   *)
(* by the number of those tokens that are not in the OOV set, in the       *)
(* vocabulary or not.  sum_in_vocab_token_lengths grows by the lengths of  *)
(* the same tokens, so an OOV token that is not excluded counts toward     *)
(* total_num_tokens only.                                                  *)

C19_TokenCounters ==
  \A a \in AccIds \ consumed :
    (linear /\ ~accs[a].invalidate)
      => CountersOf(accs[a]) = TokenCounters(folded[a], CountedNotOov)

(* C19 as stated: in the integer-row and in the string-row path,           *)
(* num_in_vocab_tokens and sum_in_vocab_token_lengths grow by the tokens   *)
(* that are not excluded, resolve in the vocabulary and are not OOV.       *)

C19_TokenCountersInVocabulary ==
  \A a \in AccIds \ consumed :
    (linear /\ ~accs[a].invalidate)
      => CountersOf(accs[a]) = TokenCounters(folded[a], CountedInVocabulary)

\* with the excluded string token 'bb', the excluded integer token 9 and
\* the OOV token 'u': an integer row with an excluded and three counted
\* tokens, and a string row with a counted and an OOV token
C19_Witness ==
  /\ cfg.excluded_string_tokens = {StrTok(BB)}
  /\ cfg.excluded_int_tokens = {IntTok(9)}
  /\ cfg.oov_string_tokens = {StrTok(U)}
  /\ accs # <<>>
  /\ folded[1] = <<[type |-> "INT",
                    toks |-> <<IntTok(1), IntTok(1), IntTok(9), IntTok(1)>>],
                   [type |-> "STRING", toks |-> <<StrTok(A), StrTok(U)>>]>>
  /\ accs[1].total_num_tokens = 5
  /\ accs[1].num_in_vocab_tokens = 4
  /\ accs[1].sum_in_vocab_token_lengths = 4

----------------------------------------------------------------------------
\* a TokenStatistics record that holds only the name of its token
NameOnly(t) ==
  [token |-> t,
   frequency |-> None,
   fraction_of_sequences |-> None,
   per_sequence_min_frequency |-> None,
   per_sequence_max_frequency |-> None,
   per_sequence_avg_frequency |-> None,
   positions |-> <<>>]

\* the tokens with a _TokenStats object whose num_sequences is not 0
SeenTokens(a) ==
  {t \in DOMAIN accs[a].token_statistics :
     trackers[accs[a].token_statistics[t]].num_sequences > 0}

(* C20: when extract_output returns for an accumulator that is not         *)
(* invalidated, the nl_<token>_* custom stats are reported exactly for the *)
(* tokens whose num_sequences > 0, and nl_statistics holds a               *)
(* token-statistics record for every token that has a _TokenStats object:  *)
(* with frequency, fraction of sequences, min/max/avg per-sequence         *)
(* frequency and positions when num_sequences > 0, and with nothing but    *)
(* the token's name when num_sequences is 0.                               *)

----------------------------------------------------------------------------
\* the two sample lists of an accumulator
SampleLists(acc) ==
  [coverage |-> acc.reported_sequences_coverage,
   avg_token_length |-> acc.reported_sequences_avg_token_length]

\* some entries of the list have the same metric
HasTie(list) ==
  \E i, j \in 1..Len(list) : i # j /\ list[i][2] = list[j][2]

(* C21: also when sample metrics tie, for three accumulators A, B, C that  *)
(* no merge has taken, merge(merge(A, B), C) and merge(A, merge(B, C))     *)
(* have the same two sample lists, entry by entry, and these are the lists *)
(* of one accumulator that folds the rows of A, then of B, then of C.      *)

C21_TiedSamplesAssociate ==
  \A a, b, c \in AccIds \ consumed :
    (linear /\ a # b /\ b # c /\ a # c) =>
      LET n == Len(accs)
          s0 == [trackers |-> trackers, all |-> accs]
          left == MergePair(MergePair(s0, a, b), n + 1, c)
          right == MergePair(MergePair(s0, b, c), a, n + 1)
          w == SingleWorker(folded[a] \o folded[b] \o folded[c])
      IN /\ SampleLists(left.all[n + 2]) = SampleLists(right.all[n + 2])
         /\ SampleLists(left.all[n + 2]) = SampleLists(w.acc)

\* three shards with 9 candidates, of which more than K tie, were merged
\* in two steps into an accumulator whose lists hold ties
C21_Witness ==
  \E a \in AccIds \ consumed :
    /\ linear
    /\ a = NumShards + 2
    /\ Len(folded[a]) = MaxTieWork
    /\ \A b \in 1..NumShards : folded[b] # <<>>
    /\ Len(accs[a].reported_sequences_coverage)
         = _NUM_REPORTED_SEQUENCES_PER_TYPE
    /\ HasTie(accs[a].reported_sequences_coverage)
    /\ HasTie(accs[a].reported_sequences_avg_token_length)
    /\ accs[a].reported_sequences_coverage
         = SingleWorker(folded[a]).acc.reported_sequences_coverage

----------------------------------------------------------------------------
\* the list has at most K entries, in ascending order of the metric
CappedAscending(list) ==
  /\ Len(list) <= 5
  /\ \A i \in 1..(Len(list) - 1) : QuotLE(list[i][2], list[i + 1][2])

(* C22: in every reachable state, after every row fold and every merge,    *)
(* a merge of an accumulator with itself included, each of the two sample  *)
(* lists of every accumulator has at most K = 5 entries and is sorted      *)
(* ascending by metric.                                                    *)

C22_SampleListsCappedAscending ==
  \A a \in AccIds :
    /\ CappedAscending(accs[a].reported_sequences_coverage)
    /\ CappedAscending(accs[a].reported_sequences_avg_token_length)

\* an accumulator merged from an accumulator and itself, which has seen
\* more than K candidates and keeps K, with different metrics
C22_Witness ==
  \E a \in AccIds :
    /\ ~linear
    /\ Len(SelectSeq(folded[a], LAMBDA r : r.toks # <<>>)) > 5
    /\ Len(accs[a].reported_sequences_coverage) = 5
    /\ Len(accs[a].reported_sequences_avg_token_length) = 5
    /\ accs[a].reported_sequences_coverage[1][2]
         # accs[a].reported_sequences_coverage[5][2]

----------------------------------------------------------------------------
\* the feature arrays add_input rejects: every array when the feature path
\* is not valid, and the arrays of a type that is neither integer nor
\* string (a null array has no type)
RejectedBatches ==
  {batch \in Batches :
     ~cfg.valid \/ batch.type \notin {"INT", "STRING", "NULL"}}

(* C23: add_input for a feature whose path is not among the valid feature  *)
(* paths, or with an array whose type is neither integer nor string, sets  *)
(* invalidate to true and changes no other field of the accumulator, no    *)
(* other accumulator and no _TokenStats object: no row is folded.          *)

C23_RejectedBatchOnlyInvalidates ==
  [][\A a \in AccIds : \A batch \in RejectedBatches :
       (/\ work' = work + 1
        /\ folded' = folded
        /\ AddInput(a, batch))
         => /\ accs' = [accs EXCEPT ![a].invalidate = TRUE]
            /\ trackers' = trackers]_vars

\* the only accumulator has folded rows with tracked tokens and was then
\* invalidated by an array of floats
C23_Witness ==
  /\ cfg.valid
  /\ Len(accs) = 1
  /\ accs[1].invalidate
  /\ accs[1].num_examples = Len(folded[1])
  /\ accs[1].num_examples > 0
  /\ accs[1].total_num_tokens > 0
  /\ accs[1].token_statistics # <<>>
  /\ accs[1].reported_sequences_coverage # <<>>

----------------------------------------------------------------------------
\* the positions (from 1) of the row at which token t is counted: for a
\* token of the row's own representation the positions that hold it, for
\* a token of the other representation the positions whose token the
\* vocabulary resolves to it
CountedPositions(t, row) ==
  IF t.isint = (row.type = "INT")
    THEN {i \in 1..Len(row.toks) : row.toks[i] = t}
    ELSE LET d == IF row.type = "INT" THEN cfg.rvocab ELSE cfg.vocab
         IN {i \in 1..Len(row.toks) :
               row.toks[i] \in DOMAIN d /\ d[row.toks[i]] = t}

(* C24: when a vocabulary exists, the rows folded by one accumulator count *)
(* for every tracked token under both identities: a tracked string token   *)
(* is counted in an integer row at exactly the positions whose integer     *)
(* resolves to it, a tracked integer token in a string row at exactly the  *)
(* positions whose string maps to it, and a tracked token of the row's own *)
(* representation at the positions that hold it.  frequency is the number  *)
(* of these positions, num_sequences the number of rows that have one, and *)
(* positions counts them by bucket.                                        *)

C24_BothIdentities ==
  \A a \in AccIds : \A t \in TrackedTokens :
    (cfg.has_vocab /\ \E i \in 1..Len(folded[a]) : folded[a][i].toks # <<>>)
      => /\ t \in DOMAIN accs[a].token_statistics
         /\ LET rows == folded[a]
                R == 1..Len(rows)
                B == cfg.num_histogram_buckets
                stats == trackers[accs[a].token_statistics[t]]
            IN /\ stats.frequency
                    = SumOver([r \in R |->
                                 Cardinality(CountedPositions(t, rows[r]))], R)
               /\ stats.num_sequences
                    = Cardinality({r \in R :
                                     CountedPositions(t, rows[r]) # {}})
               /\ \A k \in 0..(B - 1) :
                    CounterGet(stats.positions, k)
                      = SumOver(
                          [r \in R |->
                             Cardinality(
                               {i \in CountedPositions(t, rows[r]) :
                                  /\ k * Len(rows[r].toks) <= (i - 1) * B
                                  /\ (i - 1) * B
                                       < (k + 1) * Len(rows[r].toks)})], R)

\* an integer row and a string row, each counted for the tracked integer
\* token 1 and for the tracked string token 'a'
C24_Witness ==
  /\ cfg.has_vocab
  /\ TrackedTokens = {IntTok(1), StrTok(A)}
  /\ accs # <<>>
  /\ folded[1] = <<[type |-> "INT",
                    toks |-> <<IntTok(1), IntTok(2), IntTok(1)>>],
                   [type |-> "STRING", toks |-> <<StrTok(A), StrTok(U)>>]>>
  /\ trackers[accs[1].token_statistics[IntTok(1)]].frequency = 3
  /\ trackers[accs[1].token_statistics[StrTok(A)]].frequency = 3
  /\ trackers[accs[1].token_statistics[StrTok(A)]].num_sequences = 2
  /\ trackers[accs[1].token_statistics[IntTok(1)]].positions
       = (0 :> 2) @@ (1 :> 1)

----------------------------------------------------------------------------
MaxVocabRowLen == 3

\* the integer rows of up to MaxVocabRowLen tokens, all in the vocabulary
VocabIntRows == {<<>>} \cup SeqsUpTo(DOMAIN cfg.rvocab, MaxVocabRowLen)

\* vocab and rvocab are inverse to each other
Bijective ==
  /\ \A n \in DOMAIN cfg.rvocab :
       cfg.rvocab[n] \in DOMAIN cfg.vocab /\ cfg.vocab[cfg.rvocab[n]] = n
  /\ \A x \in DOMAIN cfg.vocab :
       cfg.vocab[x] \in DOMAIN cfg.rvocab /\ cfg.rvocab[cfg.vocab[x]] = x

(* C25: with a bijective vocabulary, folding an integer row whose tokens   *)
(* are all in the vocabulary and folding the string row that holds their   *)
(* vocabulary strings, into the same accumulator, give equal accumulators  *)
(* and equal _TokenStats objects: the same counters, token_statistics,     *)
(* sample lists and sketches.                                              *)

C25_IntAndStringRowsAgree ==
  (cfg.has_vocab /\ Bijective) =>
    \A a \in AccIds : \A row \in VocabIntRows :
      LET st == [trackers |-> trackers, acc |-> accs[a], id |-> a]
          int_row == [type |-> "INT", toks |-> row]
          str_row == [type |-> "STRING",
                      toks |-> [i \in 1..Len(row) |-> cfg.rvocab[row[i]]]]
      IN add_input(st, BatchOfRow(int_row), cfg)
           = add_input(st, BatchOfRow(str_row), cfg)

\* with the excluded string token 'a': the accumulator that folded the
\* integer row [1, 2, 1] is the accumulator of the string row
\* ['a', 'bb', 'a'], with 1 token counted
C25_Witness ==
  /\ cfg.has_vocab
  /\ cfg.excluded_string_tokens = {StrTok(A)}
  /\ accs # <<>>
  /\ folded[1] = <<[type |-> "INT",
                    toks |-> <<IntTok(1), IntTok(2), IntTok(1)>>]>>
  /\ accs[1].total_num_tokens = 1
  /\ accs[1].num_in_vocab_tokens = 1
  /\ accs[1].reported_sequences_coverage # <<>>
  /\ accs[1]
       = SingleWorker(<<[type |-> "STRING",
                         toks |-> <<StrTok(A), StrTok(BB), StrTok(A)>>]>>).acc

----------------------------------------------------------------------------
\* the addresses of the _TokenStats objects of an accumulator
TrackersOf(acc) == {acc.token_statistics[t] : t \in DOMAIN acc.token_statistics}

(* C26: merge_accumulators does not modify its inputs: after the call      *)
(* every input has the fields it had, every _TokenStats object of an input *)
(* has the value it had, and the result shares no _TokenStats object with  *)
(* an input.                                                               *)

C26_MergeKeepsInputs ==
  [][\A ids \in ShardMergeInputs :
       (/\ Len(accs') = Len(accs) + 1
        /\ consumed' = consumed \cup Range(ids)
        /\ MergeAccumulators(ids))
         => \A i \in Range(ids) :
              /\ accs'[i] = accs[i]
              /\ TrackerValues(trackers', accs'[i])
                   = TrackerValues(trackers, accs[i])
              /\ TrackersOf(accs'[Len(accs')]) \cap TrackersOf(accs[i])
                   = {}]_vars

----------------------------------------------------------------------------
(* C27: in every accumulator made by folds and merges that no merge has    *)
(* taken, when no accumulator was merged twice or used after a merge took  *)
(* it, every token's num_sequences is at most num_examples, and every      *)
(* extracted fraction_of_sequences is greater than 0 and at most 1.        *)

C27_SequencesAtMostExamples ==
  \A a \in AccIds \ consumed : \A t \in DOMAIN accs[a].token_statistics :
    linear =>
      LET stats == trackers[accs[a].token_statistics[t]]
      IN /\ stats.num_sequences <= accs[a].num_examples
         /\ (~accs[a].invalidate /\ stats.num_sequences > 0)
              => LET proto == extract_output(trackers, accs[a], cfg).nl_token[t]
                     fraction == proto.fraction_of_sequences[1]
                 IN /\ fraction[1] > 0
                    /\ QuotLE(fraction, <<1, 1>>)

\* the extracted output of a merged accumulator with 2 examples, of which
\* 1 holds the token
C27_Witness ==
  \E a \in AccIds \ consumed : \E t \in DOMAIN accs[a].token_statistics :
    /\ linear
    /\ accs[a].token_statistics[t][1] # a
    /\ accs[a].num_examples = 2
    /\ trackers[accs[a].token_statistics[t]].num_sequences = 1
    /\ output.called /\ ~output.raised
    /\ output.result = extract_output(trackers, accs[a], cfg)
    /\ output.result.nl_token[t].fraction_of_sequences = Some(<<1, 2>>)

----------------------------------------------------------------------------
(* C28: in every reachable state every accumulator has                     *)
(* num_in_vocab_tokens <= total_num_tokens, after rows of both types and   *)
(* after merges, and the feature coverage that extract_output reports is   *)
(* at least 0 and at most 1.                                               *)

C28_InVocabAtMostTotal ==
  \A a \in AccIds :
    /\ 0 <= accs[a].num_in_vocab_tokens
    /\ accs[a].num_in_vocab_tokens <= accs[a].total_num_tokens
    /\ ~ExtractRaises(trackers, accs[a], cfg)
         => LET coverage ==
                  extract_output(trackers, accs[a], cfg).nl_feature_coverage
            IN coverage # None
                 => /\ QuotLE(<<0, 1>>, coverage[1])
                    /\ QuotLE(coverage[1], <<1, 1>>)

\* the extracted output of a merged accumulator that holds integer and
\* string rows, with a coverage strictly between 0 and 1
C28_Witness ==
  \E a \in AccIds :
    /\ a \notin consumed
    /\ \E b \in consumed : b # a
    /\ \E i, j \in 1..Len(folded[a]) :
         folded[a][i].type = "INT" /\ folded[a][j].type = "STRING"
    /\ 0 < accs[a].num_in_vocab_tokens
    /\ accs[a].num_in_vocab_tokens < accs[a].total_num_tokens
    /\ output.called /\ ~output.raised
    /\ output.result = extract_output(trackers, accs[a], cfg)
    /\ output.result.nl_feature_coverage
         = Some(Quot(accs[a].num_in_vocab_tokens, accs[a].total_num_tokens))

----------------------------------------------------------------------------
(* C29: in every reachable state every token record with num_sequences > 0 *)
(* has per_sequence_min_frequency <= per_sequence_max_frequency and        *)
(* min * num_sequences <= frequency <= max * num_sequences, and the        *)
(* per_sequence_avg_frequency that extract_output reports for the token    *)
(* lies between the reported minimum and maximum.                          *)

C29_FrequencyWithinBounds ==
  /\ \A x \in DOMAIN trackers :
       LET stats == trackers[x]
       IN stats.num_sequences > 0
            => /\ stats.per_sequence_min_frequency # None
               /\ stats.per_sequence_max_frequency # None
               /\ stats.per_sequence_min_frequency[1]
                    <= stats.per_sequence_max_frequency[1]
               /\ stats.per_sequence_min_frequency[1] * stats.num_sequences
                    <= stats.frequency
               /\ stats.frequency
                    <= stats.per_sequence_max_frequency[1] * stats.num_sequences
  /\ \A a \in AccIds :
       ~ExtractRaises(trackers, accs[a], cfg)
         => LET result == extract_output(trackers, accs[a], cfg)
            IN \A t \in DOMAIN result.nl_token :
                 LET proto == result.nl_token[t]
                 IN /\ QuotLE(<<proto.per_sequence_min_frequency[1], 1>>,
                              proto.per_sequence_avg_frequency[1])
                    /\ QuotLE(proto.per_sequence_avg_frequency[1],
                              <<proto.per_sequence_max_frequency[1], 1>>)

\* a merged accumulator with a token that occurs once in one row and twice
\* in another: the reported average 3/2 is strictly between 1 and 2
C29_Witness ==
  \E a \in AccIds : \E t \in DOMAIN accs[a].token_statistics :
    LET stats == trackers[accs[a].token_statistics[t]]
    IN /\ a \notin consumed
       /\ \E b \in consumed : b # a
       /\ stats.num_sequences = 2
       /\ stats.frequency = 3
       /\ stats.per_sequence_min_frequency = Some(1)
       /\ stats.per_sequence_max_frequency = Some(2)
       /\ output.called /\ ~output.raised
       /\ output.result = extract_output(trackers, accs[a], cfg)
       /\ output.result.nl_token[t].per_sequence_avg_frequency
            = Some(<<3, 2>>)

----------------------------------------------------------------------------
(* C30: in every reachable state, for every token record, the counts of    *)
(* its position buckets sum to its frequency, every count is positive and  *)
(* every bucket index is in 0..num_histogram_buckets-1; this holds after   *)
(* rows and after merges.                                                  *)

C30_PositionsSumToFrequency ==
  \A x \in DOMAIN trackers :
    LET stats == trackers[x]
    IN /\ SumOver(stats.positions, DOMAIN stats.positions)
            = stats.frequency
       /\ \A k \in DOMAIN stats.positions :
            /\ stats.positions[k] > 0
            /\ k \in 0..(cfg.num_histogram_buckets - 1)

\* a token record of a merge result whose two buckets were filled by rows
\* of different inputs of the merge
C30_Witness ==
  \E a \in AccIds : \E t \in DOMAIN accs[a].token_statistics :
    LET stats == trackers[accs[a].token_statistics[t]]
    IN /\ linear
       /\ a \notin consumed
       /\ \E b \in consumed : b # a
       /\ Len(folded[a]) >= 2
       /\ Cardinality(DOMAIN stats.positions) = 2
       /\ stats.frequency >= 3
       /\ \E k \in DOMAIN stats.positions : stats.positions[k] >= 2

----------------------------------------------------------------------------
(* C31: merge_accumulators of an empty collection returns what             *)
(* create_accumulator returns, and merge_accumulators of a list that holds *)
(* one accumulator A and otherwise only fresh empty accumulators, at any   *)
(* positions, returns an accumulator equal to A in invalidate, the scalar  *)
(* counters, the values of token_statistics and the two sample lists.      *)

\* the fields of an accumulator that the comparison is about
ComparedFields(heap, acc) ==
  [invalidate |-> acc.invalidate,
   exact |-> ExactFields(heap, acc),
   reported_sequences_coverage |-> acc.reported_sequences_coverage,
   reported_sequences_avg_token_length |->
     acc.reported_sequences_avg_token_length]

\* position i of ids is the only one that may hold a used accumulator
OthersFresh(ids, i) ==
  \A j \in 1..Len(ids) : j # i => accs[ids[j]] = NewPartialNLStats

C31_EmptyIsIdentity ==
  [][\A ids \in IdentityMergeInputs :
       (Len(accs') = Len(accs) + 1 /\ MergeAccumulators(ids))
         => LET result == accs'[Len(accs')]
            IN /\ ids = <<>> => result = NewPartialNLStats
               /\ \A i \in 1..Len(ids) :
                    OthersFresh(ids, i)
                      => ComparedFields(trackers', result)
                           = ComparedFields(trackers, accs[ids[i]])]_vars

\* the result of merging a fresh accumulator, an accumulator with two rows
\* (token statistics and samples) and another fresh accumulator, in this
\* order
C31_Witness ==
  \E a, e1, e2, r \in AccIds :
    /\ e1 # e2 /\ r = Len(accs) /\ {a, e1, e2} \subseteq consumed
    /\ r \notin consumed
    /\ accs[e1] = NewPartialNLStats /\ accs[e2] = NewPartialNLStats
    /\ Len(folded[a]) = 2 /\ folded[r] = folded[a]
    /\ accs[a].num_in_vocab_tokens > 0
    /\ Len(accs[a].reported_sequences_coverage) = 2
    /\ \E t \in DOMAIN accs[a].token_statistics :
         trackers[accs[a].token_statistics[t]].num_sequences > 0
    /\ accs[r] = merge_accumulators(trackers, accs, <<e1, a, e2>>, r).acc
    /\ ComparedFields(trackers, accs[r]) = ComparedFields(trackers, accs[a])

----------------------------------------------------------------------------
(* C32: a call of extract_output leaves the accumulator and its token      *)
(* records as they were (no counter, token_statistics entry or sample list *)
(* is created or changed), so a second call on the same accumulator gives  *)
(* the same output and every merge that takes the accumulator returns the  *)
(* same accumulator after the call as before it.                           *)

C32_ExtractLeavesAccumulator ==
  [][\A a \in AccIds :
       (output'.called /\ ExtractOutput(a))
         => /\ accs' = accs
            /\ trackers' = trackers
            /\ ExtractRaises(trackers', accs'[a], cfg) = output'.raised
            /\ ~output'.raised
                 => extract_output(trackers', accs'[a], cfg) = output'.result
            /\ \A ids \in {x \in MergeInputs : a \in Range(x)} :
                 merge_accumulators(trackers', accs', ids, Len(accs') + 1)
                   = merge_accumulators(trackers, accs, ids, Len(accs) + 1)]_vars

\* the output of an accumulator with rows, token records and samples, one
\* of whose configured tokens was never looked up
C32_Witness ==
  \E a \in AccIds :
    /\ output.called /\ ~output.raised
    /\ ~accs[a].invalidate
    /\ Len(folded[a]) = 2
    /\ accs[a].reported_sequences_coverage # <<>>
    /\ output.result = extract_output(trackers, accs[a], cfg)
    /\ DOMAIN output.result.nl_token # {}
    /\ output.result.nl_reported_sequences # None
    /\ \E b \in AccIds :
         /\ (cfg.int_tokens \cup cfg.string_tokens)
              \ DOMAIN accs[b].token_statistics # {}
         /\ \E ids \in MergeInputs : a \in Range(ids) /\ b \in Range(ids)

====
